---- MODULE Spec2Model ----
(***************************************************************************)
(* Kapto rule engine: the board action-legality and application engine of  *)
(* src/src/game_board.rs, with the coordinate and direction algebra of     *)
(* src/src/coordinate.rs and src/src/direction.rs.                         *)
(*                                                                         *)
(* A GameBoard is built by GameBoard::new, populated through piece_mut,    *)
(* and then played by successive apply_action calls, each made on the      *)
(* board the previous successful call returned.  Every call is recorded    *)
(* in `call` so that its input, its receiver before and after, its result  *)
(* and the capture_callback invocations can be inspected.                  *)
(***************************************************************************)
EXTENDS Integers, Sequences, FiniteSets, TLC

VARIABLES board, phase, placed, reported, call

vars == <<board, phase, placed, reported, call>>

(***************************************************************************)
(* Bounds of the model.                                                    *)
(***************************************************************************)
\* board_size.rows() and board_size.columns() handed to GameBoard::new
BoardRows == 2
BoardCols == 3
\* pieces put on the board during setup
MaxPieces == 2
\* longest direction chain of a Jump action
MaxJumps == 2

\* goal_pos handed to GameBoard::new (non-empty, as its assert demands)
GoalPos == {0, 1}

(***************************************************************************)
(* Pieces (game_board.rs:237-283).                                         *)
(***************************************************************************)
None == "None"

Piece == {"SmallRed", "LargeRed", "SmallBlue", "LargeBlue"}

color(p) ==
    CASE p = "SmallRed" -> "Red"
      [] p = "LargeRed" -> "Red"
      [] p = "SmallBlue" -> "Blue"
      [] p = "LargeBlue" -> "Blue"

size(p) ==
    CASE p = "SmallRed" -> "Small"
      [] p = "LargeRed" -> "Large"
      [] p = "SmallBlue" -> "Small"
      [] p = "LargeBlue" -> "Large"

is_small(s) == s = "Small"

\* jump_limit of the two standard pieces (ruleset/standard.rs, get_pieces):
\* "Big" is Unlimited, "Little" is Limited { limit: 1 }
jump_limit(name) ==
    CASE name = "Big" -> [kind |-> "Unlimited", limit |-> 0]
      [] name = "Little" -> [kind |-> "Limited", limit |-> 1]

(***************************************************************************)
(* Coordinates and directions.                                             *)
(***************************************************************************)
Coordinate(r, c) == [row |-> r, column |-> c]

\* `as usize` of an i16: a negative value sign-extends to the top of the
\* usize range.  UsizeModulus stands for 2^64 (it only has to exceed every
\* i16 magnitude plus every board dimension, which 2^30 does).
UsizeModulus == 1073741824

AsUsize(x) == IF x < 0 THEN UsizeModulus + x ELSE x

PositionRow(pos) == AsUsize(pos.row)
PositionColumn(pos) == AsUsize(pos.column)

\* impl Add for Coordinate: the column of the right-hand side is dropped
Add(self, rhs) == Coordinate(self.row + rhs.row, self.column)

\* impl Mul<i16> for Coordinate
Mul(self, rhs) == Coordinate(self.row * rhs, self.column * rhs)

Direction ==
    {"North", "South", "East", "West",
     "NorthWest", "NorthEast", "SouthWest", "SouthEast"}

offset(d) ==
    CASE d = "North" -> Coordinate(0, -1)
      [] d = "South" -> Coordinate(0, 1)
      [] d = "East" -> Coordinate(1, 0)
      [] d = "West" -> Coordinate(-1, 0)
      [] d = "NorthWest" -> Coordinate(-1, -1)
      [] d = "NorthEast" -> Coordinate(1, -1)
      [] d = "SouthWest" -> Coordinate(-1, 1)
      [] d = "SouthEast" -> Coordinate(1, 1)

(***************************************************************************)
(* Board cells and the column-major matrix holding them.                   *)
(***************************************************************************)
\* BoardSpace: Invalid, or a cell holding an Option<Piece> (written as the
\* Option it holds: None or the piece).  GameBoard::new builds Invalid and
\* Normal(None) cells only, and piece()/piece_mut() treat Normal and Goal
\* alike.
Invalid == "Invalid"
Normal(p) == p
\* what a Vec index past the end of `values` does: the thread panics
OutOfRange == "OutOfRange"

\* matrix::Conventional index of a position: values[rows * column + row]
Index(b, pos) ==
    LET i == b.rows * PositionColumn(pos) + PositionRow(pos)
    IN  IF i \in DOMAIN b.values THEN b.values[i] ELSE OutOfRange

IndexSet(b, pos, v) ==
    LET i == b.rows * PositionColumn(pos) + PositionRow(pos)
    IN  [b EXCEPT !.values[i] = v]

\* GameBoard::new
GameBoardNew(size_rows, size_columns, goal_pos) ==
    LET rows == size_rows + 2
        columns == size_columns
    IN  [rows |-> rows,
         columns |-> columns,
         values |->
            [i \in 0 .. (rows * columns - 1) |->
                LET r == i % rows
                    c == i \div rows
                IN  IF (r = 0 \/ r = rows - 1) /\ c \notin goal_pos
                    THEN Invalid
                    ELSE Normal(None)]]

(***************************************************************************)
(* Results: Ok(v), Err(e) and a panic (unwrap of Err/None, unreachable!,   *)
(* index out of range).  `piece` carries the Option<Piece> of an Ok from   *)
(* piece() or the Piece payload of PieceOnMove / PieceOnJump.              *)
(***************************************************************************)
Ok(p) == [kind |-> "Ok", err |-> None, piece |-> p]
Err(e, p) == [kind |-> "Err", err |-> e, piece |-> p]
Panic == [kind |-> "Panic", err |-> None, piece |-> None]

\* the validity test without its comparison of the row
is_valid_position_any_row(b, pos) ==
    /\ b.columns > PositionColumn(pos)
    /\ Index(b, pos) # Invalid

\* GameBoard::is_valid_position: && evaluates left to right and stops at
\* the first false operand, so the matrix is indexed only inside the bounds
is_valid_position(b, pos) ==
    IF ~(b.columns > PositionColumn(pos)) THEN FALSE
    ELSE IF ~(b.rows > PositionRow(pos)) THEN FALSE
    ELSE Index(b, pos) # Invalid

\* GameBoard::check_valid_position
check_valid_position(b, pos) ==
    IF is_valid_position(b, pos) THEN Ok(None) ELSE Err("InvalidPosition", None)

\* GameBoard::piece
piece(b, pos) ==
    IF check_valid_position(b, pos).kind = "Err"
    THEN Err("InvalidPosition", None)
    ELSE LET cell == Index(b, pos)
         IN  IF cell \notin {Invalid, OutOfRange}
             THEN Ok(cell)
             ELSE Panic

\* GameBoard::piece_mut: the same checked access as piece(); the write
\* through the returned reference is piece_mut_set
piece_mut(b, pos) == piece(b, pos)

piece_mut_set(b, pos, v) ==
    IndexSet(b, pos, Normal(v))

\* GameBoard::is_valid_move
is_valid_move(b, start_pos, direction) ==
    LET new_pos == Add(offset(direction), start_pos)
        found == piece(b, new_pos)
    IN  CASE found.kind = "Ok" ->
                IF found.piece # None
                THEN Err("PieceOnMove", found.piece)
                ELSE Ok(None)
          [] found.kind = "Err" -> Err("MoveOffBoard", None)
          [] OTHER -> Panic

Last(s) == s[Len(s)]
Contains(s, x) == \E i \in 1 .. Len(s) : s[i] = x

\* the cells of one hop as is_valid_jump computes them (lines 188-189)
jump_middle_pos(prev, direction) == Add(offset(direction), prev)
jump_new_pos(prev, direction) ==
    Add(offset(direction), jump_middle_pos(prev, direction))

\* one hop with the middle cell examined before the landing cell
is_valid_hop_middle_first(b, prev_positions, direction) ==
    LET middle_pos == jump_middle_pos(Last(prev_positions), direction)
        new_pos == jump_new_pos(Last(prev_positions), direction)
        landing == piece(b, new_pos)
        middle == piece(b, middle_pos)
    IN  IF middle.kind = "Ok" /\ middle.piece = None
        THEN Err("NoPieceJumped", None)
        ELSE IF landing.kind = "Err" THEN Err("JumpOffBoard", None)
        ELSE IF landing.kind = "Panic" THEN Panic
        ELSE IF landing.piece # None THEN Err("PieceOnJump", landing.piece)
        ELSE IF Contains(prev_positions, new_pos)
             THEN Err("JumpedBackToPrevPosition", None)
        ELSE IF middle.kind # "Ok" THEN Panic
        ELSE Ok(None)

\* the body of the `for direction in directions` loop of is_valid_jump
\* (lines 188-207) for one hop: Ok(None) when the hop passes
is_valid_hop(b, prev_positions, direction) ==
    LET middle_pos == jump_middle_pos(Last(prev_positions), direction)
        new_pos == jump_new_pos(Last(prev_positions), direction)
        landing == piece(b, new_pos)
    IN  IF landing.kind = "Err" THEN Err("JumpOffBoard", None)
        ELSE IF landing.kind = "Panic" THEN Panic
        ELSE IF landing.piece # None THEN Err("PieceOnJump", landing.piece)
        ELSE IF Contains(prev_positions, new_pos)
             THEN Err("JumpedBackToPrevPosition", None)
        ELSE LET middle == piece(b, middle_pos)
             IN  IF middle.kind # "Ok" THEN Panic
                 ELSE IF middle.piece = None THEN Err("NoPieceJumped", None)
                 ELSE Ok(None)

RECURSIVE is_valid_jump_loop(_, _, _, _)
is_valid_jump_loop(b, directions, i, prev_positions) ==
    IF i > Len(directions) THEN Ok(None)
    ELSE LET hop == is_valid_hop(b, prev_positions, directions[i])
         IN  IF hop.kind # "Ok" THEN hop
             ELSE is_valid_jump_loop(b, directions, i + 1,
                    Append(prev_positions,
                           jump_new_pos(Last(prev_positions), directions[i])))

\* the length checks without the cap on small pieces
is_valid_jump_length_uncapped(p, directions) ==
    IF Len(directions) = 0 THEN Err("EmptyJump", None) ELSE Ok(None)

\* the two length checks that precede the loop of is_valid_jump
is_valid_jump_length(p, directions) ==
    IF Len(directions) = 0 THEN Err("EmptyJump", None)
    ELSE IF is_small(size(p)) /\ Len(directions) > 1
         THEN Err("MultipleJumpsForSmall", None)
    ELSE Ok(None)

\* GameBoard::is_valid_jump
is_valid_jump(b, p, start_pos, directions) ==
    LET len == is_valid_jump_length(p, directions)
    IN  IF len.kind # "Ok" THEN len
        ELSE is_valid_jump_loop(b, directions, 1, <<start_pos>>)

\* Action and ActionType (action.rs:5-15)
Move(direction) == [kind |-> "Move", directions |-> <<direction>>]
Jump(directions) == [kind |-> "Jump", directions |-> directions]
Action(start_pos, action_type) ==
    [start_pos |-> start_pos, action_type |-> action_type]

\* the action's own check made before the start cell is looked at
is_valid_action_kind_first(b, action) ==
    LET found == piece(b, action.start_pos)
        specific ==
            IF action.action_type.kind = "Move"
            THEN is_valid_move(b, action.start_pos,
                               action.action_type.directions[1])
            ELSE is_valid_jump(b,
                               IF found.kind = "Ok" /\ found.piece # None
                               THEN found.piece ELSE "LargeRed",
                               action.start_pos,
                               action.action_type.directions)
    IN  IF specific.kind = "Err" THEN specific
        ELSE IF found.kind = "Err" THEN Err("InvalidStartPosition", None)
        ELSE IF found.kind = "Panic" THEN Panic
        ELSE IF found.piece = None THEN Err("NoPieceAtStart", None)
        ELSE Ok(None)

\* GameBoard::is_valid_action
is_valid_action(b, action) ==
    LET found == piece(b, action.start_pos)
    IN  IF found.kind = "Err" THEN Err("InvalidStartPosition", None)
        ELSE IF found.kind = "Panic" THEN Panic
        ELSE IF found.piece = None THEN Err("NoPieceAtStart", None)
        ELSE IF action.action_type.kind = "Move"
             THEN is_valid_move(b, action.start_pos,
                                action.action_type.directions[1])
             ELSE is_valid_jump(b, found.piece, action.start_pos,
                                action.action_type.directions)

(***************************************************************************)
(* GameBoard::apply_action.                                                *)
(***************************************************************************)
\* apply_action writing through the receiver instead of through a clone
receiver_after_aliased(self, written) == written

\* `&self` is a shared borrow and the board that is written is
\* `self.clone()`, a value of its own: the receiver as the call leaves it
receiver_after(self, written) == self

\* one capture_callback(middle_pos, middle_piece) invocation
Capture(pos, p) == [position |-> pos, piece |-> p]

\* where the Jump branch of apply_action moves `position` to after a hop
apply_next_position(position, direction) ==
    Add(Mul(offset(direction), 2), position)

\* a hop that removes whatever piece it passes over
is_capture_any(jumper, middle_piece) == TRUE

\* line 117: the hopped piece is captured when its color is not the jumper's
is_capture(jumper, middle_piece) == color(middle_piece) # color(jumper)

\* the `for direction in directions` loop of apply_action's Jump branch
RECURSIVE apply_jump_loop(_, _, _, _, _, _)
apply_jump_loop(b, jumper, directions, i, position, captures) ==
    IF i > Len(directions)
    THEN [panic |-> FALSE, board |-> b, position |-> position,
          captures |-> captures]
    ELSE LET direction == directions[i]
             middle_pos == Add(offset(direction), position)
             middle_piece == piece_mut(b, middle_pos)
         IN  IF middle_piece.kind # "Ok" \/ middle_piece.piece = None
             THEN [panic |-> TRUE, board |-> b, position |-> position,
                   captures |-> captures]
             ELSE LET capture == is_capture(jumper, middle_piece.piece)
                  IN  apply_jump_loop(
                        IF capture THEN piece_mut_set(b, middle_pos, None)
                                   ELSE b,
                        jumper, directions, i + 1,
                        apply_next_position(position, direction),
                        IF capture
                        THEN Append(captures,
                                    Capture(middle_pos, middle_piece.piece))
                        ELSE captures)

NoBoard == [rows |-> 0, columns |-> 0, values |-> <<>>]

\* what a call leaves behind: the receiver, the value returned (`out` is
\* the new board of an Ok), and the capture_callback invocations in order
Outcome(self, ret, out, captures) ==
    [self |-> self, ret |-> ret, out |-> out, captures |-> captures]

apply_action(self, action) ==
    LET valid == is_valid_action(self, action)
    IN  IF valid.kind # "Ok"
        THEN Outcome(self, valid, NoBoard, <<>>)
        ELSE
        LET piece_start == piece_mut(self, action.start_pos)
            jumper == piece_start.piece
            cleared == piece_mut_set(self, action.start_pos, None)
        IN  IF piece_start.kind # "Ok" \/ jumper = None
            THEN Outcome(self, Panic, NoBoard, <<>>)
            ELSE IF action.action_type.kind = "Move"
            THEN LET target == Add(offset(action.action_type.directions[1]),
                                   action.start_pos)
                 IN  IF piece_mut(cleared, target).kind # "Ok"
                     THEN Outcome(receiver_after(self, cleared), Panic,
                                  NoBoard, <<>>)
                     ELSE LET moved == piece_mut_set(cleared, target, jumper)
                          IN  Outcome(receiver_after(self, moved), Ok(None),
                                      moved, <<>>)
            ELSE LET run == apply_jump_loop(cleared, jumper,
                                action.action_type.directions, 1,
                                action.start_pos, <<>>)
                 IN  IF run.panic
                        \/ piece_mut(run.board, run.position).kind # "Ok"
                     THEN Outcome(receiver_after(self, run.board), Panic,
                                  NoBoard, run.captures)
                     ELSE LET landed == piece_mut_set(run.board, run.position,
                                                      jumper)
                          IN  Outcome(receiver_after(self, landed), Ok(None),
                                      landed, run.captures)

(***************************************************************************)
(* Inputs.                                                                 *)
(***************************************************************************)
Rows == BoardRows + 2
Columns == BoardCols

\* every cell of the board and the ring of coordinates around it
Coordinates ==
    {Coordinate(r, c) : r \in -1 .. Rows, c \in -1 .. Columns}

RECURSIVE ChainsOfLength(_)
ChainsOfLength(n) ==
    IF n = 0 THEN {<<>>}
    ELSE {Append(ds, d) : ds \in ChainsOfLength(n - 1), d \in Direction}

DirectionChains == UNION {ChainsOfLength(n) : n \in 0 .. MaxJumps}

ActionTypes ==
    {Move(d) : d \in Direction} \cup {Jump(ds) : ds \in DirectionChains}

\* is_valid_action returns at lines 131-141, before it reads action_type,
\* when the start holds no piece: from such a start these action types
\* stand for all of them
ProbeTypes == {Move("South"), Jump(<<>>), Jump(<<"East">>)}

ActionsOn(b) ==
    {Action(pos, t) : pos \in Coordinates, t \in ProbeTypes}
    \cup UNION {{Action(pos, t) : t \in ActionTypes} :
                    pos \in {c \in Coordinates :
                                LET found == piece(b, c)
                                IN  found.kind = "Ok" /\ found.piece # None}}

PieceCount(b) ==
    Cardinality({i \in DOMAIN b.values : b.values[i] \in Piece})

(***************************************************************************)
(* The state machine.                                                      *)
(***************************************************************************)
NoAction == Action(Coordinate(0, 0), Jump(<<>>))

\* the last call: what was called with which input, what it returned and
\* which captures it reported; the receiver is `board`
CallRecord(op, action, outcome) ==
    [op |-> op, action |-> action, ret |-> outcome.ret, out |-> outcome.out,
     captures |-> outcome.captures]

NoCall == CallRecord("none", NoAction,
                     Outcome(NoBoard, Ok(None), NoBoard, <<>>))

Init ==
    /\ board = GameBoardNew(BoardRows, BoardCols, GoalPos)
    /\ phase = "setup"
    /\ placed = 0
    /\ reported = 0
    /\ call = NoCall

\* setup: *board.piece_mut(pos)? = Some(p) on an empty cell
PlacePiece(pos, p) ==
    /\ phase = "setup"
    /\ placed < MaxPieces
    /\ piece_mut(board, pos) = Ok(None)
    /\ board' = piece_mut_set(board, pos, p)
    /\ placed' = placed + 1
    /\ UNCHANGED <<phase, reported, call>>

\* board.piece(pos)
QueryPiece(pos) ==
    /\ phase \in {"setup", "play"}
    /\ call' = CallRecord("piece", Action(pos, Jump(<<>>)),
                          Outcome(board, piece(board, pos), NoBoard, <<>>))
    /\ phase' = "returned"
    /\ UNCHANGED <<board, placed, reported>>

\* board.apply_action(&action, capture_callback): `board` is the receiver
ApplyAction(action) ==
    /\ phase \in {"setup", "play"}
    /\ LET outcome == apply_action(board, action)
       IN  /\ call' = CallRecord("apply_action", action, outcome)
           /\ board' = outcome.self
           /\ reported' = reported + Len(outcome.captures)
    /\ phase' = "returned"
    /\ UNCHANGED placed

\* the caller goes on: with the board an Ok of apply_action returned, with
\* the board it had after an Err; a panic ends the run
Continue ==
    /\ phase = "returned"
    /\ call.ret.kind # "Panic"
    /\ board' = IF call.op = "apply_action" /\ call.ret.kind = "Ok"
                THEN call.out ELSE board
    /\ call' = NoCall
    /\ phase' = "play"
    /\ UNCHANGED <<placed, reported>>

Next ==
    \/ phase = "setup" /\ \E pos \in Coordinates, p \in Piece : PlacePiece(pos, p)
    \/ phase # "returned" /\ \E pos \in Coordinates : QueryPiece(pos)
    \/ phase # "returned" /\ \E action \in ActionsOn(board) : ApplyAction(action)
    \/ Continue

Spec == Init /\ [][Next]_vars

(***************************************************************************)
(* A second setup: three pieces already on the board when play starts.     *)
(***************************************************************************)
CrowdedPieces == <<"LargeRed", "SmallRed", "LargeBlue">>

RECURSIVE SetupOf(_, _)
\* the boards piece_mut can build from b by putting pieces[1..n], each on
\* an empty cell
SetupOf(b, n) ==
    IF n = 0 THEN {b}
    ELSE UNION {{piece_mut_set(prior, pos, CrowdedPieces[n]) :
                    pos \in {c \in Coordinates : piece_mut(prior, c) = Ok(None)}} :
                prior \in SetupOf(b, n - 1)}

InitCrowded ==
    /\ board \in SetupOf(GameBoardNew(BoardRows, BoardCols, GoalPos),
                         Len(CrowdedPieces))
    /\ phase = "play"
    /\ placed = Len(CrowdedPieces)
    /\ reported = 0
    /\ call = NoCall

NextPlay ==
    \/ phase # "returned" /\ \E pos \in Coordinates : QueryPiece(pos)
    \/ phase # "returned" /\ \E action \in ActionsOn(board) : ApplyAction(action)
    \/ Continue

SpecCrowded == InitCrowded /\ [][NextPlay]_vars

(***************************************************************************)
(* Vocabulary of the properties: the board read directly, without the      *)
(* accessors of GameBoard.                                                 *)
(***************************************************************************)
InBounds(b, pos) ==
    /\ pos.row >= 0 /\ pos.row < b.rows
    /\ pos.column >= 0 /\ pos.column < b.columns

CellAt(b, pos) == b.values[b.rows * pos.column + pos.row]

OnBoard(b, pos) == InBounds(b, pos) /\ CellAt(b, pos) # Invalid

\* componentwise sum of two coordinates
Plus(a, b) == Coordinate(a.row + b.row, a.column + b.column)

Returned(op) == phase = "returned" /\ call.op = op

Start == call.action.start_pos
Kind == call.action.action_type.kind
Chain == call.action.action_type.directions

\* an apply_action call has returned whose start holds a piece
Played(kind) ==
    /\ Returned("apply_action")
    /\ OnBoard(board, Start)
    /\ CellAt(board, Start) \in Piece
    /\ Kind = kind

Jumper == CellAt(board, Start)

(***************************************************************************)
(* C1: apply_action never changes the board it is called on: across every  *)
(* apply_action call, whatever it returns, the receiver is cell by cell    *)
(* what it was before the call.                                            *)
(***************************************************************************)
C1_ReceiverUnchanged ==
    [][(phase' = "returned" /\ call'.op = "apply_action") => board' = board]_vars

\* a call returned a new board that differs from the receiver, which still
\* holds the piece on the start cell
C1_Witness ==
    /\ Played("Jump")
    /\ call.ret.kind = "Ok"
    /\ call.out # board
    /\ CellAt(call.out, Start) = None

(***************************************************************************)
(* C2: piece conservation: the board a successful apply_action returns     *)
(* holds as many pieces as the receiver minus the captures the call        *)
(* reported, and between calls the board holds the pieces set up minus all *)
(* the captures reported so far.                                           *)
(***************************************************************************)
C2_PieceConservation ==
    /\ (Returned("apply_action") /\ call.ret.kind = "Ok")
            => PieceCount(call.out) = PieceCount(board) - Len(call.captures)
    /\ phase # "returned" => PieceCount(board) = placed - reported

(***************************************************************************)
(* C3: for a coordinate that is out of bounds or whose cell is Invalid,    *)
(* piece() returns InvalidPosition and apply_action from that start        *)
(* returns InvalidStartPosition; neither panics.                           *)
(***************************************************************************)
C3_OffBoardRejected ==
    (phase = "returned" /\ ~OnBoard(board, Start)) =>
        /\ call.op = "piece" => call.ret = Err("InvalidPosition", None)
        /\ call.op = "apply_action"
                => call.ret = Err("InvalidStartPosition", None)

\* apply_action was called from a coordinate with a negative column, on a
\* board that holds a piece
C3_Witness ==
    /\ Returned("apply_action")
    /\ Start.column < 0
    /\ PieceCount(board) > 0
    /\ call.ret = Err("InvalidStartPosition", None)

(***************************************************************************)
(* C4: apply_action returns an error exactly when is_valid_action does,    *)
(* and the same one: InvalidStartPosition for an invalid start, otherwise  *)
(* NoPieceAtStart for an empty start, otherwise the error of the Move or   *)
(* Jump check.                                                             *)
(***************************************************************************)
C4_ErrorPriority ==
    Returned("apply_action") =>
        LET valid == is_valid_action(board, call.action)
            specific == IF Kind = "Move"
                        THEN is_valid_move(board, Start, Chain[1])
                        ELSE is_valid_jump(board, Jumper, Start, Chain)
        IN  /\ (call.ret.kind = "Err") = (valid.kind = "Err")
            /\ call.ret.kind = "Err" => call.ret = valid
            /\ IF ~OnBoard(board, Start)
               THEN call.ret = Err("InvalidStartPosition", None)
               ELSE IF CellAt(board, Start) = None
               THEN call.ret = Err("NoPieceAtStart", None)
               ELSE /\ (call.ret.kind = "Err") = (specific.kind = "Err")
                    /\ call.ret.kind = "Err" => call.ret = specific

\* a Move from an empty cell towards an occupied one: NoPieceAtStart wins
\* over PieceOnMove
C4_Witness ==
    /\ Returned("apply_action")
    /\ Kind = "Move"
    /\ OnBoard(board, Start)
    /\ CellAt(board, Start) = None
    /\ is_valid_move(board, Start, Chain[1]).err = "PieceOnMove"
    /\ call.ret = Err("NoPieceAtStart", None)

(***************************************************************************)
(* C5: is_valid_move decides on target = start + offset(direction), row    *)
(* and column both added: MoveOffBoard if the target is out of bounds or   *)
(* Invalid, PieceOnMove(p) if p occupies it, Ok otherwise.                 *)
(***************************************************************************)
C5_MoveTarget ==
    Played("Move") =>
        LET target == Plus(Start, offset(Chain[1]))
            verdict == is_valid_move(board, Start, Chain[1])
        IN  IF ~OnBoard(board, target)
            THEN verdict = Err("MoveOffBoard", None)
            ELSE IF CellAt(board, target) \in Piece
            THEN verdict = Err("PieceOnMove", CellAt(board, target))
            ELSE verdict = Ok(None)

(***************************************************************************)
(* The cells of a jump chain.                                              *)
(***************************************************************************)
\* where is_valid_jump stands after the first i hops of a chain
RECURSIVE HopPos(_, _, _)
HopPos(start, dirs, i) ==
    IF i = 0 THEN start
    ELSE jump_new_pos(HopPos(start, dirs, i - 1), dirs[i])

\* the cell hop i of a chain passes over, as is_valid_jump computes it
HopMiddle(start, dirs, i) ==
    jump_middle_pos(HopPos(start, dirs, i - 1), dirs[i])

\* where the chain stands after i hops of two cells each
RECURSIVE TruePos(_, _, _)
TruePos(start, dirs, i) ==
    IF i = 0 THEN start
    ELSE Plus(Plus(TruePos(start, dirs, i - 1), offset(dirs[i])),
              offset(dirs[i]))

\* where apply_action stands after the first i hops, and the cell hop i
\* passes over, as its loop computes them
RECURSIVE ApplyPos(_, _, _)
ApplyPos(start, dirs, i) ==
    IF i = 0 THEN start
    ELSE apply_next_position(ApplyPos(start, dirs, i - 1), dirs[i])

ApplyMiddle(start, dirs, i) ==
    Add(offset(dirs[i]), ApplyPos(start, dirs, i - 1))

\* what the checks of hop i give on board b, taken in the order landing off
\* the board, landing occupied, landing visited, middle empty
HopVerdict(b, start, dirs, i) ==
    LET land == HopPos(start, dirs, i)
        mid == HopMiddle(start, dirs, i)
    IN  IF ~OnBoard(b, land) THEN Err("JumpOffBoard", None)
        ELSE IF CellAt(b, land) \in Piece
             THEN Err("PieceOnJump", CellAt(b, land))
        ELSE IF \E j \in 0 .. i - 1 : HopPos(start, dirs, j) = land
             THEN Err("JumpedBackToPrevPosition", None)
        ELSE IF ~OnBoard(b, mid) THEN Panic
        ELSE IF CellAt(b, mid) = None THEN Err("NoPieceJumped", None)
        ELSE Ok(None)

Min(S) == CHOOSE x \in S : \A y \in S : x <= y

\* the chain length the piece may jump: its standard definition's limit
LengthAllowed(p, n) ==
    LET limit == jump_limit(IF is_small(size(p)) THEN "Little" ELSE "Big")
    IN  limit.kind = "Unlimited" \/ n <= limit.limit

(***************************************************************************)
(* C6: a jump chain of a legal length in which a hop lands on a coordinate *)
(* visited earlier in the chain, the start included, is rejected with      *)
(* JumpedBackToPrevPosition when every hop is otherwise legal (the hops    *)
(* before it pass, its landing is on the board, its middle is occupied).   *)
(* Stated for chains whose cells are two apart in row and column, so that  *)
(* only the order of the checks decides.                                   *)
(***************************************************************************)
C6_RevisitRejected ==
    (Played("Jump") /\ Len(Chain) >= 1 /\ LengthAllowed(Jumper, Len(Chain))) =>
        \A k \in 1 .. Len(Chain) :
            ( /\ \A i \in 1 .. k :
                    HopPos(Start, Chain, i) = TruePos(Start, Chain, i)
              /\ \A i \in 1 .. k - 1 :
                    HopVerdict(board, Start, Chain, i) = Ok(None)
              /\ \E j \in 0 .. k - 1 :
                    HopPos(Start, Chain, j) = HopPos(Start, Chain, k)
              /\ OnBoard(board, HopPos(Start, Chain, k))
              /\ OnBoard(board, HopMiddle(Start, Chain, k))
              /\ CellAt(board, HopMiddle(Start, Chain, k)) \in Piece )
            => call.ret = Err("JumpedBackToPrevPosition", None)

(***************************************************************************)
(* C7: is_valid_jump examines the hops in chain order and, within a hop,   *)
(* landing off the board, landing occupied, landing already visited,       *)
(* middle empty, in that order: the error returned is the first failing    *)
(* check of the first failing hop.                                         *)
(***************************************************************************)
C7_FirstFailingCheck ==
    (Played("Jump") /\ is_valid_jump_length(Jumper, Chain).kind = "Ok") =>
        LET failing == {i \in 1 .. Len(Chain) :
                            HopVerdict(board, Start, Chain, i) # Ok(None)}
        IN  IF failing = {}
            THEN call.ret.kind # "Err"
            ELSE call.ret = HopVerdict(board, Start, Chain, Min(failing))

\* the first hop fails two checks at once (landing occupied, middle empty),
\* the second hop would leave the board: PieceOnJump of the first hop wins
C7_Witness ==
    /\ Played("Jump")
    /\ Len(Chain) = 2
    /\ is_valid_jump_length(Jumper, Chain).kind = "Ok"
    /\ OnBoard(board, HopMiddle(Start, Chain, 1))
    /\ CellAt(board, HopMiddle(Start, Chain, 1)) = None
    /\ ~OnBoard(board, HopPos(Start, Chain, 2))
    /\ call.ret.err = "PieceOnJump"
    /\ call.ret.piece = CellAt(board, HopPos(Start, Chain, 1))

(***************************************************************************)
(* C8: in a successful Jump every hop's middle is prev + offset(dir) and   *)
(* its landing is middle + offset(dir), row and column both, and the board *)
(* returned has the start cell empty and the jumping piece on the last     *)
(* landing is_valid_jump checked, which is start plus twice the sum of the *)
(* offsets.                                                                *)
(***************************************************************************)
C8_JumpLanding ==
    (Played("Jump") /\ call.ret.kind = "Ok") =>
        LET n == Len(Chain)
            final == HopPos(Start, Chain, n)
        IN  /\ \A i \in 1 .. n :
                /\ HopMiddle(Start, Chain, i)
                     = Plus(HopPos(Start, Chain, i - 1), offset(Chain[i]))
                /\ HopPos(Start, Chain, i)
                     = Plus(HopMiddle(Start, Chain, i), offset(Chain[i]))
            /\ final = TruePos(Start, Chain, n)
            /\ CellAt(call.out, Start) = None
            /\ CellAt(call.out, final) = Jumper

(***************************************************************************)
(* C9: in a successful Jump, a hopped piece of the other color is reported *)
(* to capture_callback once, with its coordinate, and its cell is empty in *)
(* the board returned; a hopped piece of the jumper's color is not         *)
(* reported and is still on its cell in the board returned.  The middle    *)
(* cell of a hop is the middle_pos apply_action computes for it.           *)
(***************************************************************************)
RECURSIVE ExpectedCaptures(_)
ExpectedCaptures(i) ==
    IF i = 0 THEN <<>>
    ELSE LET mid == ApplyMiddle(Start, Chain, i)
         IN  IF color(CellAt(board, mid)) # color(Jumper)
             THEN Append(ExpectedCaptures(i - 1),
                         Capture(mid, CellAt(board, mid)))
             ELSE ExpectedCaptures(i - 1)

C9_CaptureOnHop ==
    (Played("Jump") /\ call.ret.kind = "Ok") =>
        /\ call.captures = ExpectedCaptures(Len(Chain))
        /\ \A i \in 1 .. Len(Chain) :
            LET mid == ApplyMiddle(Start, Chain, i)
            IN  IF color(CellAt(board, mid)) # color(Jumper)
                THEN CellAt(call.out, mid) = None
                ELSE CellAt(call.out, mid) = CellAt(board, mid)

\* a one-hop jump over a piece of the other color: reported and removed
C9_Witness ==
    /\ Played("Jump")
    /\ call.ret.kind = "Ok"
    /\ Len(Chain) = 1
    /\ color(CellAt(board, ApplyMiddle(Start, Chain, 1))) # color(Jumper)
    /\ call.captures = <<Capture(ApplyMiddle(Start, Chain, 1),
                                 CellAt(board, ApplyMiddle(Start, Chain, 1)))>>
    /\ CellAt(call.out, ApplyMiddle(Start, Chain, 1)) = None

MaxRows == 3
MaxColumns == 3
\* longest goal_locations list
MaxGoals == 2

\* u8::MAX and the number of u8 values
U8Max == 255
U8Modulus == 256

\* Space (ruleset/mod.rs:201-208)
SpaceInvalid == "Invalid"
SpaceNormal == "Normal"
SpaceGoal(c) == IF c = "Red" THEN "GoalRed" ELSE "GoalBlue"

\* results of the verify functions: Ok(()), Err(error(value)), a panic
Pass == [kind |-> "Ok", err |-> None, value |-> 0]
Fail(e, v) == [kind |-> "Err", err |-> e, value |-> v]
Abort == [kind |-> "Panic", err |-> None, value |-> 0]
\* a number returned
Value(n) == [kind |-> "Ok", err |-> None, value |-> n]

\* BoardType::Rectangular { rows, columns, goal_locations } and
\* BoardType::Custom(matrix), the matrix being rows x columns cells that
\* all hold `fill`
Rectangular(rows, columns, goal_locations) ==
    [kind |-> "Rectangular", rows |-> rows, columns |-> columns,
     goal_locations |-> goal_locations, fill |-> SpaceNormal]
Custom(rows, columns, fill) ==
    [kind |-> "Custom", rows |-> rows, columns |-> columns,
     goal_locations |-> <<>>, fill |-> fill]

\* the first goal location that is not a column of the board, as the `for`
\* loop with an early return finds it; 0 when there is none
RECURSIVE FirstOutside(_, _, _)
FirstOutside(goal_locations, column_count, i) ==
    IF i > Len(goal_locations) THEN 0
    ELSE IF goal_locations[i] >= column_count THEN i
    ELSE FirstOutside(goal_locations, column_count, i + 1)

\* the Rectangular branch with the column count tested before the rows
BoardType_verify_columns_first(b) ==
    LET bad == FirstOutside(b.goal_locations, b.columns, 1)
    IN  IF b.kind = "Custom" THEN Pass
        ELSE IF b.columns < 2 THEN Fail("InvalidColumns", b.columns)
        ELSE IF b.rows < 1 \/ b.rows > U8Max - 1
             THEN Fail("InvalidRows", b.rows)
        ELSE IF bad # 0
             THEN Fail("InvalidGoalLocation", b.goal_locations[bad])
        ELSE Pass

\* BoardType::verify of ruleset/mod.rs (the BoardType a Ruleset holds)
BoardType_verify(b) ==
    LET bad == FirstOutside(b.goal_locations, b.columns, 1)
    IN  IF b.kind = "Custom" THEN Pass
        ELSE IF b.rows < 1 \/ b.rows > U8Max - 1
             THEN Fail("InvalidRows", b.rows)
        ELSE IF b.columns < 2 THEN Fail("InvalidColumns", b.columns)
        ELSE IF bad # 0
             THEN Fail("InvalidGoalLocation", b.goal_locations[bad])
        ELSE Pass

\* BoardType::verify of ruleset/board_type/mod.rs; its goal_locations is a
\* HashSet, iterated here in the order of the list
board_type_verify(b) ==
    LET bad == FirstOutside(b.goal_locations, b.columns, 1)
    IN  IF b.kind = "Custom"
        THEN IF b.rows > U8Max THEN Fail("InvalidRows", b.rows)
             ELSE IF b.columns > U8Max THEN Fail("InvalidColumns", b.columns)
             ELSE Pass
        ELSE IF b.rows < 1 \/ b.rows > U8Max - 2
             THEN Fail("InvalidRows", b.rows)
        ELSE IF b.columns < 2 THEN Fail("InvalidColumns", b.columns)
        ELSE IF bad # 0
             THEN Fail("InvalidGoalLocation", b.goal_locations[bad])
        ELSE Pass

\* get_space with both border rows given to Red
get_space_red_only(b, coordinate) ==
    IF b.kind = "Rectangular"
    THEN IF coordinate.row >= b.rows + 2 \/ coordinate.column >= b.columns
         THEN SpaceInvalid
         ELSE IF coordinate.row = 0 \/ coordinate.row = b.rows + 1
         THEN IF Contains(b.goal_locations, coordinate.column)
              THEN SpaceGoal("Red")
              ELSE SpaceInvalid
         ELSE SpaceNormal
    ELSE IF coordinate.row >= b.rows \/ coordinate.column >= b.columns
         THEN SpaceInvalid
         ELSE IF coordinate.row < 0 \/ coordinate.column < 0
         THEN "Panic"
         ELSE b.fill

\* BoardType::get_space; a Custom matrix indexed with a negative coordinate
\* (a huge usize) panics
get_space(b, coordinate) ==
    IF b.kind = "Rectangular"
    THEN IF coordinate.row >= b.rows + 2 \/ coordinate.column >= b.columns
         THEN SpaceInvalid
         ELSE IF coordinate.row = 0 \/ coordinate.row = b.rows + 1
         THEN IF Contains(b.goal_locations, coordinate.column)
              THEN SpaceGoal(IF coordinate.row = 0 THEN "Red" ELSE "Blue")
              ELSE SpaceInvalid
         ELSE SpaceNormal
    ELSE IF coordinate.row >= b.rows \/ coordinate.column >= b.columns
         THEN SpaceInvalid
         ELSE IF coordinate.row < 0 \/ coordinate.column < 0
         THEN "Panic"
         ELSE b.fill

\* BoardType::rows: `rows + 2` on u8 panics in a build with overflow checks
\* and wraps in one without: the set of its outcomes.  A Custom matrix's
\* usize row count is narrowed to the u8 returned.
rows(b) ==
    IF b.kind = "Rectangular"
    THEN IF b.rows + 2 > U8Max
         THEN {Abort, Value((b.rows + 2) % U8Modulus)}
         ELSE {Value(b.rows + 2)}
    ELSE {Value(b.rows % U8Modulus)}

\* BoardType::columns
columns(b) ==
    IF b.kind = "Rectangular" THEN b.columns ELSE b.columns % U8Modulus

\* the matrix of into_matrix: Conventional::new fills with Space::zero(),
\* which is Normal, then the two border rows are written
NoMatrix == [rows |-> 0, columns |-> 0, cells |-> <<>>]

into_matrix(b) ==
    LET verdict == board_type_verify(b)
    IN  IF verdict.kind # "Ok" THEN [ret |-> verdict, matrix |-> NoMatrix]
        ELSE IF b.kind = "Custom"
        THEN [ret |-> Pass,
              matrix |-> [rows |-> b.rows, columns |-> b.columns,
                          cells |-> [cell \in (0 .. b.rows - 1)
                                          \X (0 .. b.columns - 1) |-> b.fill]]]
        ELSE [ret |-> Pass,
              matrix |->
                [rows |-> b.rows + 2, columns |-> b.columns,
                 cells |->
                   [cell \in (0 .. b.rows + 1) \X (0 .. b.columns - 1) |->
                      LET is_goal == Contains(b.goal_locations, cell[2])
                      IN  IF cell[1] = 0
                          THEN IF is_goal THEN SpaceGoal("Red")
                               ELSE SpaceInvalid
                          ELSE IF cell[1] = b.rows + 1
                          THEN IF is_goal THEN SpaceGoal("Blue")
                               ELSE SpaceInvalid
                          ELSE SpaceNormal]]]

(***************************************************************************)
(* Calls on a board type.                                                  *)
(***************************************************************************)
\* the lists of at most n goal columns
RECURSIVE GoalListsOfLength(_)
GoalListsOfLength(n) ==
    IF n = 0 THEN {<<>>}
    ELSE {Append(list, location) :
            list \in GoalListsOfLength(n - 1), location \in 0 .. MaxColumns}

GoalLists == UNION {GoalListsOfLength(n) : n \in 0 .. MaxGoals}

\* row counts: the small ones and those next to u8::MAX
RowCounts == (0 .. MaxRows) \cup (U8Max - 3 .. U8Max)

\* row and column counts of a Custom matrix: small, and around u8::MAX
CustomCounts == {1, 2, U8Max, U8Max + 1}

BoardTypes ==
    {Rectangular(r, c, g) :
        r \in RowCounts, c \in 0 .. MaxColumns, g \in GoalLists}
    \cup {Custom(r, c, fill) : r \in CustomCounts, c \in CustomCounts,
                               fill \in {SpaceNormal, SpaceInvalid}}

\* the coordinates asked of a board: around the small boards and around
\* the last rows of this one
CoordinatesOf(b) ==
    {Coordinate(r, c) :
        r \in (-1 .. MaxRows + 2) \cup (b.rows - 1 .. b.rows + 2),
        c \in -1 .. MaxColumns + 1}

BoardCall(op, b, coordinate, ret, matrix) ==
    [op |-> op, board_type |-> b, coordinate |-> coordinate, ret |-> ret,
     matrix |-> matrix]

InitBoardType ==
    /\ board = NoBoard
    /\ phase = "input"
    /\ placed = 0
    /\ reported = 0
    /\ call \in {BoardCall("none", b, Coordinate(0, 0), Pass, NoMatrix) :
                    b \in BoardTypes}

\* board_type.verify() of ruleset/mod.rs
VerifyBoardType ==
    /\ phase = "input"
    /\ call' = [call EXCEPT !.op = "verify",
                            !.ret = BoardType_verify(call.board_type)]
    /\ phase' = "returned"
    /\ UNCHANGED <<board, placed, reported>>

\* board_type.verify() of ruleset/board_type/mod.rs
VerifyBoardTypeModule ==
    /\ phase = "input"
    /\ call' = [call EXCEPT !.op = "board_type_verify",
                            !.ret = board_type_verify(call.board_type)]
    /\ phase' = "returned"
    /\ UNCHANGED <<board, placed, reported>>

\* board_type.get_space(coordinate)
GetSpace(coordinate) ==
    /\ phase = "input"
    /\ call' = [call EXCEPT !.op = "get_space",
                            !.coordinate = coordinate,
                            !.ret = get_space(call.board_type, coordinate)]
    /\ phase' = "returned"
    /\ UNCHANGED <<board, placed, reported>>

\* board_type.rows()
RowsOf ==
    /\ phase = "input"
    /\ \E ret \in rows(call.board_type) :
            call' = [call EXCEPT !.op = "rows", !.ret = ret]
    /\ phase' = "returned"
    /\ UNCHANGED <<board, placed, reported>>

\* board_type.columns()
ColumnsOf ==
    /\ phase = "input"
    /\ call' = [call EXCEPT !.op = "columns",
                            !.ret = columns(call.board_type)]
    /\ phase' = "returned"
    /\ UNCHANGED <<board, placed, reported>>

\* board_type.into_matrix()
IntoMatrix ==
    /\ phase = "input"
    /\ LET made == into_matrix(call.board_type)
       IN  call' = [call EXCEPT !.op = "into_matrix", !.ret = made.ret,
                                !.matrix = made.matrix]
    /\ phase' = "returned"
    /\ UNCHANGED <<board, placed, reported>>

NextBoardType ==
    \/ VerifyBoardType
    \/ VerifyBoardTypeModule
    \/ phase = "input" /\ \E c \in CoordinatesOf(call.board_type) : GetSpace(c)
    \/ RowsOf
    \/ ColumnsOf
    \/ IntoMatrix

SpecBoardType == InitBoardType /\ [][NextBoardType]_vars

\* the board type a returned call was made on
BoardType == call.board_type

IsRectangular == phase = "returned" /\ BoardType.kind = "Rectangular"

\* the class of cell (r, c) of a Rectangular board of rows + 2 rows
Classify(b, r, c) ==
    IF r = 0 /\ c \in {b.goal_locations[i] : i \in 1 .. Len(b.goal_locations)}
    THEN "GoalRed"
    ELSE IF r = b.rows + 1
            /\ c \in {b.goal_locations[i] : i \in 1 .. Len(b.goal_locations)}
    THEN "GoalBlue"
    ELSE IF r \in 1 .. b.rows THEN "Normal"
    ELSE "Invalid"

(***************************************************************************)
(* C11: a Rectangular board (rows, columns, goals) has rows + 2 rows:      *)
(* get_space gives Goal(Red) on row 0 and Goal(Blue) on row rows + 1 at a  *)
(* goal column, Invalid there at any other column, Normal on rows 1..rows; *)
(* rows() is rows + 2 (where a u8 holds it) and columns() is columns; the  *)
(* matrix of into_matrix has rows + 2 rows, `columns` columns and the same *)
(* class in every cell.                                                    *)
(***************************************************************************)
C11_Topology ==
    IsRectangular =>
        /\ ( /\ call.op = "get_space"
             /\ call.coordinate.row \in 0 .. BoardType.rows + 1
             /\ call.coordinate.column \in 0 .. BoardType.columns - 1 )
           => call.ret = Classify(BoardType, call.coordinate.row,
                                  call.coordinate.column)
        /\ (call.op = "rows" /\ BoardType.rows + 2 <= U8Max)
           => call.ret = Value(BoardType.rows + 2)
        /\ call.op = "columns" => call.ret = BoardType.columns
        /\ (call.op = "into_matrix" /\ call.ret.kind = "Ok")
           => /\ call.matrix.rows = BoardType.rows + 2
              /\ call.matrix.columns = BoardType.columns
              /\ DOMAIN call.matrix.cells
                   = (0 .. BoardType.rows + 1) \X (0 .. BoardType.columns - 1)
              /\ \A cell \in DOMAIN call.matrix.cells :
                    call.matrix.cells[cell]
                        = Classify(BoardType, cell[1], cell[2])

\* get_space on the last row of a board, at a goal column: Goal(Blue)
C11_Witness ==
    /\ IsRectangular
    /\ call.op = "get_space"
    /\ BoardType.rows = 2
    /\ call.coordinate.row = 3
    /\ Contains(BoardType.goal_locations, call.coordinate.column)
    /\ call.coordinate.column < BoardType.columns
    /\ call.ret = "GoalBlue"

(***************************************************************************)
(* C12: on a Rectangular board whose rows are within the row bound, verify *)
(* returns InvalidRows(rows) when rows = 0, otherwise InvalidColumns       *)
(* (columns) when columns < 2, otherwise InvalidGoalLocation(c) for a goal *)
(* column c >= columns, and Ok in every other case, an empty goal list     *)
(* included.                                                               *)
(***************************************************************************)
C12_VerifyPriority ==
    ( /\ IsRectangular
      /\ call.op \in {"verify", "board_type_verify"}
      /\ BoardType.rows <= U8Max - 2 ) =>
        LET goals == {BoardType.goal_locations[i] :
                        i \in 1 .. Len(BoardType.goal_locations)}
        IN  IF BoardType.rows = 0
            THEN call.ret = Fail("InvalidRows", 0)
            ELSE IF BoardType.columns < 2
            THEN call.ret = Fail("InvalidColumns", BoardType.columns)
            ELSE IF \E c \in goals : c >= BoardType.columns
            THEN /\ call.ret.kind = "Err"
                 /\ call.ret.err = "InvalidGoalLocation"
                 /\ call.ret.value \in goals
                 /\ call.ret.value >= BoardType.columns
            ELSE call.ret = Pass

\* rows, columns and a goal column all wrong at once: the row error wins
C12_Witness ==
    /\ IsRectangular
    /\ call.op = "verify"
    /\ BoardType.rows = 0
    /\ BoardType.columns = 1
    /\ Contains(BoardType.goal_locations, 2)
    /\ call.ret = Fail("InvalidRows", 0)

(***************************************************************************)
(* C13: every Rectangular board verify accepts has rows <= u8::MAX - 2, so *)
(* rows() of an accepted board is rows + 2; rows = 254 and rows = 255 are  *)
(* rejected with InvalidRows; a Custom board with more rows or columns     *)
(* than a u8 holds is rejected.                                            *)
(***************************************************************************)
C13_RowsRepresentable ==
    phase = "returned" =>
        /\ (call.op = "verify" /\ BoardType.kind = "Rectangular")
           => /\ call.ret.kind = "Ok" => BoardType.rows <= U8Max - 2
              /\ BoardType.rows > U8Max - 2
                    => call.ret = Fail("InvalidRows", BoardType.rows)
        /\ ( /\ call.op = "rows"
             /\ BoardType.kind = "Rectangular"
             /\ BoardType_verify(BoardType).kind = "Ok" )
           => call.ret = Value(BoardType.rows + 2)
        /\ ( /\ call.op = "verify"
             /\ BoardType.kind = "Custom"
             /\ (BoardType.rows > U8Max \/ BoardType.columns > U8Max) )
           => call.ret.kind = "Err"

(***************************************************************************)
(* Rulesets and starting positions (src/src/ruleset/mod.rs,                *)
(* src/src/ruleset/starting_positions/mod.rs).                             *)
(***************************************************************************)
\* largest piece index a layout or a limit names
MaxIndex == 1
\* most entries of a starting-position map, most coordinates of an entry
MaxEntries == 2
MaxPositions == 2

\* a Ruleset; pieces is the catalog, a list of piece definitions
Ruleset(pieces, board_type, starting_positions, victory_conditions) ==
    [pieces |-> pieces, board_type |-> board_type,
     starting_positions |-> starting_positions,
     victory_conditions |-> victory_conditions]

\* Ruleset::get_piece: self.pieces.get(index), catalog indices from 0
get_piece(ruleset, index) ==
    IF index >= 0 /\ index < Len(ruleset.pieces)
    THEN [kind |-> "Some", piece |-> ruleset.pieces[index + 1]]
    ELSE [kind |-> "None", piece |-> None]

\* flip_coordinate and rotate_coordinate; total_rows is what board.rows()
\* returned
flip_coordinate(b, coordinate, total_rows) ==
    Coordinate(total_rows - coordinate.row - 1, coordinate.column)
rotate_coordinate(b, coordinate, total_rows) ==
    Coordinate(total_rows - coordinate.row - 1,
               columns(b) - coordinate.column - 1)

\* the image under the mirroring of a layout or area kind
Image(kind, b, coordinate, total_rows) ==
    IF kind = "MirroredFlipped"
    THEN flip_coordinate(b, coordinate, total_rows)
    ELSE rotate_coordinate(b, coordinate, total_rows)

\* StartingPositions::MirroredFlipped(map) and ::MirroredRotated(map); the
\* map is listed in the order the HashMap is iterated, one entry per index
MirroredFlipped(entries) == [kind |-> "MirroredFlipped", entries |-> entries]
MirroredRotated(entries) == [kind |-> "MirroredRotated", entries |-> entries]
Entry(piece_index, positions) ==
    [piece_index |-> piece_index, positions |-> positions]

\* the checks of one position that leave out the image of the position
verify_position_unmirrored(kind, b, total_rows, position, found) ==
    IF position \in found THEN Fail("DuplicatePosition", position)
    ELSE IF get_space(b, position) = "Panic" THEN Abort
    ELSE IF get_space(b, position) # SpaceNormal
         THEN Fail("InvalidPositionForBoard", position)
    ELSE Pass

\* the body of `for &position in positions` (lines 58-87 and 99-128): the
\* argument written `position.1` is the position
verify_position(kind, b, total_rows, position, found) ==
    IF position \in found THEN Fail("DuplicatePosition", position)
    ELSE IF get_space(b, position) = "Panic" THEN Abort
    ELSE IF get_space(b, position) # SpaceNormal
         THEN Fail("InvalidPositionForBoard", position)
    ELSE IF total_rows.kind = "Panic" THEN Abort
    ELSE LET opposite == Image(kind, b, position, total_rows.value)
         IN  IF get_space(b, opposite) = "Panic" THEN Abort
             ELSE IF get_space(b, opposite) # SpaceNormal
             THEN Fail("InvalidPositionForBoard", position)
             ELSE Pass

\* the loop over the positions of one entry; found is the set of positions
\* already used
RECURSIVE verify_positions(_, _, _, _, _, _)
verify_positions(kind, b, total_rows, positions, j, found) ==
    IF j > Len(positions) THEN [ret |-> Pass, found |-> found]
    ELSE LET verdict ==
                verify_position(kind, b, total_rows, positions[j], found)
         IN  IF verdict.kind # "Ok" THEN [ret |-> verdict, found |-> found]
             ELSE verify_positions(kind, b, total_rows, positions, j + 1,
                                   found \cup {positions[j]})

\* the loop over the entries of the map
RECURSIVE verify_entries(_, _, _, _, _, _, _)
verify_entries(kind, b, total_rows, ruleset, entries, i, found) ==
    IF i > Len(entries) THEN Pass
    ELSE IF get_piece(ruleset, entries[i].piece_index).kind = "None"
    THEN Fail("PieceIndexNotFound", entries[i].piece_index)
    ELSE LET done == verify_positions(kind, b, total_rows,
                                      entries[i].positions, 1, found)
         IN  IF done.ret.kind # "Ok" THEN done.ret
             ELSE verify_entries(kind, b, total_rows, ruleset, entries,
                                 i + 1, done.found)

\* StartingPositions::verify_mirrored_flipped, ::verify_mirrored_rotated
verify_mirrored_flipped(piece_positions, b, ruleset, total_rows) ==
    verify_entries("MirroredFlipped", b, total_rows, ruleset,
                   piece_positions, 1, {})
verify_mirrored_rotated(piece_positions, b, ruleset, total_rows) ==
    verify_entries("MirroredRotated", b, total_rows, ruleset,
                   piece_positions, 1, {})

\* StartingPositions::verify, for the two mirrored kinds
StartingPositions_verify(self, b, ruleset, total_rows) ==
    IF self.kind = "MirroredFlipped"
    THEN verify_mirrored_flipped(self.entries, b, ruleset, total_rows)
    ELSE verify_mirrored_rotated(self.entries, b, ruleset, total_rows)

(***************************************************************************)
(* Verifying mirrored starting positions.                                  *)
(***************************************************************************)
\* the catalogs: the standard pieces by name
Catalogs == {<<"Big">>, <<"Big", "Little">>}

\* rows and columns of the board layouts are declared on: 3 rows in all,
\* the middle one its own flip image
LayoutRows == 1
LayoutColumns == 2

\* the boards layouts are declared on, with a goal in column 0
LayoutBoards == {Rectangular(LayoutRows, LayoutColumns, <<0>>)}

\* the coordinates a layout may name: the cells of the board and the row
\* above it
LayoutCoordinates ==
    {Coordinate(r, c) : r \in -1 .. LayoutRows + 1,
                        c \in 0 .. LayoutColumns - 1}

RECURSIVE PositionListsOfLength(_)
PositionListsOfLength(n) ==
    IF n = 0 THEN {<<>>}
    ELSE {Append(list, position) :
            list \in PositionListsOfLength(n - 1),
            position \in LayoutCoordinates}

PositionLists == UNION {PositionListsOfLength(n) : n \in 0 .. MaxPositions}

\* the maps from piece index to positions, each with its iteration order
RECURSIVE EntryListsOfLength(_)
EntryListsOfLength(n) ==
    IF n = 0 THEN {<<>>}
    ELSE {Append(entries, Entry(index, positions)) :
            entries \in EntryListsOfLength(n - 1),
            index \in 0 .. MaxIndex, positions \in PositionLists}

EntryLists ==
    {entries \in UNION {EntryListsOfLength(n) : n \in 0 .. MaxEntries} :
        \A i, j \in 1 .. Len(entries) :
            i # j => entries[i].piece_index # entries[j].piece_index}

Layouts ==
    {MirroredFlipped(entries) : entries \in EntryLists}
    \cup {MirroredRotated(entries) : entries \in EntryLists}

RulesetCall(op, ruleset, ret) == [op |-> op, ruleset |-> ruleset, ret |-> ret]

InitStartingPositions ==
    /\ board = NoBoard
    /\ phase = "input"
    /\ placed = 0
    /\ reported = 0
    /\ call \in {RulesetCall("none", Ruleset(pieces, b, layout, {}), Pass) :
                    pieces \in Catalogs, b \in LayoutBoards,
                    layout \in Layouts}

\* ruleset.starting_positions.verify(&ruleset.board_type, &ruleset)
VerifyStartingPositions ==
    /\ phase = "input"
    /\ \E total_rows \in rows(call.ruleset.board_type) :
            call' = [call EXCEPT
                        !.op = "starting_positions_verify",
                        !.ret = StartingPositions_verify(
                                    call.ruleset.starting_positions,
                                    call.ruleset.board_type,
                                    call.ruleset, total_rows)]
    /\ phase' = "returned"
    /\ UNCHANGED <<board, placed, reported>>

NextStartingPositions == VerifyStartingPositions

SpecStartingPositions == InitStartingPositions /\ [][NextStartingPositions]_vars

\* the layout verified, its board, and what it declares
Layout == call.ruleset.starting_positions
LayoutBoard == call.ruleset.board_type
DeclaredIndices ==
    {Layout.entries[i].piece_index : i \in 1 .. Len(Layout.entries)}
Declared ==
    UNION {{Layout.entries[i].positions[j] :
                j \in 1 .. Len(Layout.entries[i].positions)} :
           i \in 1 .. Len(Layout.entries)}
RECURSIVE DeclaredCount(_)
DeclaredCount(i) ==
    IF i = 0 THEN 0
    ELSE DeclaredCount(i - 1) + Len(Layout.entries[i].positions)
\* the image of a declared coordinate on the other side
ImageOf(position) ==
    Image(Layout.kind, LayoutBoard, position, LayoutBoard.rows + 2)

IndicesResolve == \A index \in DeclaredIndices :
                        index < Len(call.ruleset.pieces)
NoneRepeated == DeclaredCount(Len(Layout.entries)) = Cardinality(Declared)
IsNormal(position) ==
    /\ get_space(LayoutBoard, position) = SpaceNormal
    /\ get_space(LayoutBoard, ImageOf(position)) = SpaceNormal

C17_NoOverlap ==
    ( /\ phase = "returned"
      /\ call.op = "starting_positions_verify"
      /\ call.ret.kind = "Ok" ) =>
        \A p, q \in Declared : p # ImageOf(q)

(***************************************************************************)
(* Ruleset::verify and standard_rules (src/src/ruleset/mod.rs,             *)
(* src/src/ruleset/standard.rs).                                           *)
(***************************************************************************)
\* longest piece catalog
MaxCatalog == 2

\* a PieceDefinition, by its name and its capture rules
PieceDefinition(name, capture_rules) ==
    [name |-> name, capture_rules |-> capture_rules]

\* results of Ruleset::verify: Ok(()), Err(RulesetError), a panic; the
\* detail of an error is the piece's name or the inner error's name
RulesetOk == [kind |-> "Ok", err |-> None, detail |-> None]
RulesetErr(e, detail) == [kind |-> "Err", err |-> e, detail |-> detail]
RulesetAbort == [kind |-> "Panic", err |-> None, detail |-> None]

\* PieceDefinition::verify: internal consistency, a definition with no
\* rule in a rule set being inconsistent
PieceDefinition_verify(definition) ==
    IF definition.capture_rules = {}
    THEN RulesetErr("PieceDefinitionError", definition.name)
    ELSE RulesetOk

\* the loop of Ruleset::verify over the catalog (lines 36-42)
RECURSIVE verify_pieces(_, _, _)
verify_pieces(pieces, i, pieces_set) ==
    IF i > Len(pieces) THEN RulesetOk
    ELSE IF PieceDefinition_verify(pieces[i]).kind # "Ok"
    THEN PieceDefinition_verify(pieces[i])
    ELSE IF pieces[i] \in pieces_set
    THEN RulesetErr("PieceDuplicated", pieces[i].name)
    ELSE verify_pieces(pieces, i + 1, pieces_set \cup {pieces[i]})

\* Ruleset::verify
Ruleset_verify(self) ==
    LET catalog == verify_pieces(self.pieces, 1, {})
        topology == BoardType_verify(self.board_type)
    IN  IF catalog.kind # "Ok" THEN catalog
        ELSE IF topology.kind # "Ok"
        THEN RulesetErr("BoardTypeVerifyError", topology.err)
        ELSE RulesetOk

\* get_pieces, get_board and get_starting_positions of standard.rs, the
\* last being unimplemented!()
get_pieces ==
    <<PieceDefinition("Big", {"JumpOver"}),
      PieceDefinition("Little", {"JumpOver"})>>
get_board == Rectangular(10, 10, <<4, 5>>)
get_starting_positions == [kind |-> "Panic", entries |-> <<>>]

\* standard_rules: the Ruleset is built, verified and returned
standard_rules ==
    IF get_starting_positions.kind = "Panic" THEN RulesetAbort
    ELSE Ruleset_verify(Ruleset(get_pieces, get_board,
                                get_starting_positions, {}))

\* the catalogs: the standard pieces and a definition without rules
Definitions == {get_pieces[1], get_pieces[2], PieceDefinition("Bare", {})}

RECURSIVE CatalogsOfLength(_)
CatalogsOfLength(n) ==
    IF n = 0 THEN {<<>>}
    ELSE {Append(pieces, definition) :
            pieces \in CatalogsOfLength(n - 1), definition \in Definitions}

DefinitionCatalogs == UNION {CatalogsOfLength(n) : n \in 0 .. MaxCatalog}

\* board types: a good one, the standard one, and one for each error
RulesetBoards ==
    {Rectangular(1, 2, <<0>>), get_board, Rectangular(0, 2, <<>>),
     Rectangular(1, 1, <<>>), Rectangular(1, 2, <<2>>)}

\* layouts on the good board: none, a good one, an index out of any
\* catalog, a repeated cell, a goal cell
RulesetLayouts ==
    {MirroredFlipped(<<>>),
     MirroredRotated(<<Entry(0, <<Coordinate(1, 0)>>)>>),
     MirroredFlipped(<<Entry(MaxCatalog, <<Coordinate(1, 0)>>)>>),
     MirroredRotated(<<Entry(0, <<Coordinate(1, 0), Coordinate(1, 0)>>)>>),
     MirroredFlipped(<<Entry(0, <<Coordinate(0, 0)>>)>>)}

\* VictoryCondition, by kind
VictoryConditions == {"GoalCount", "AllCaptured", "PointDifference"}

InitRuleset ==
    /\ board = NoBoard
    /\ phase = "input"
    /\ placed = 0
    /\ reported = 0
    /\ call \in {RulesetCall("none", Ruleset(pieces, b, layout, victory),
                             RulesetOk) :
                    pieces \in DefinitionCatalogs, b \in RulesetBoards,
                    layout \in RulesetLayouts,
                    victory \in SUBSET VictoryConditions}

\* ruleset.verify()
VerifyRuleset ==
    /\ phase = "input"
    /\ call' = [call EXCEPT !.op = "ruleset_verify",
                            !.ret = Ruleset_verify(call.ruleset)]
    /\ phase' = "returned"
    /\ UNCHANGED <<board, placed, reported>>

\* standard_rules(), which takes no input
StandardRules ==
    /\ phase = "input"
    /\ call' = [call EXCEPT !.op = "standard_rules", !.ret = standard_rules]
    /\ phase' = "returned"
    /\ UNCHANGED <<board, placed, reported>>

NextRuleset ==
    \/ VerifyRuleset
    \/ StandardRules

SpecRuleset == InitRuleset /\ [][NextRuleset]_vars

\* the stages of verification, each on its own
CatalogValid == verify_pieces(call.ruleset.pieces, 1, {}).kind = "Ok"
TopologyValid == BoardType_verify(call.ruleset.board_type).kind = "Ok"
LayoutValid ==
    \A total_rows \in rows(call.ruleset.board_type) :
        StartingPositions_verify(call.ruleset.starting_positions,
                                 call.ruleset.board_type, call.ruleset,
                                 total_rows).kind = "Ok"
\* VictoryCondition.verify: GoalCount needs a board with a goal
VictoryCondition_verify(condition, ruleset) ==
    IF condition = "GoalCount" /\ ruleset.board_type.goal_locations = <<>>
    THEN RulesetErr("VictoryConditionError", condition)
    ELSE RulesetOk
VictoryValid ==
    \A condition \in call.ruleset.victory_conditions :
        VictoryCondition_verify(condition, call.ruleset).kind = "Ok"

(***************************************************************************)
(* C14: Ruleset::verify runs the piece catalog, the board type, the        *)
(* starting positions and the victory conditions in this order and         *)
(* returns the error of the first stage that fails; it returns Ok only     *)
(* when all four pass.                                                     *)
(***************************************************************************)
C14_FourStages ==
    (phase = "returned" /\ call.op = "ruleset_verify") =>
        IF ~CatalogValid
        THEN call.ret.err \in {"PieceDefinitionError", "PieceDuplicated"}
        ELSE IF ~TopologyValid
        THEN call.ret.err = "BoardTypeVerifyError"
        ELSE IF ~LayoutValid \/ ~VictoryValid
        THEN call.ret.kind = "Err"
        ELSE call.ret.kind = "Ok"

(***************************************************************************)
(* C15: a ruleset with no victory condition is rejected: whenever          *)
(* Ruleset::verify or standard_rules returns Ok, the ruleset's             *)
(* victory_conditions set is not empty.                                    *)
(***************************************************************************)
C15_VictoryNonEmpty ==
    ( /\ phase = "returned"
      /\ call.op \in {"ruleset_verify", "standard_rules"}
      /\ call.ret.kind = "Ok" ) =>
        IF call.op = "standard_rules" THEN FALSE
        ELSE call.ruleset.victory_conditions # {}

(***************************************************************************)
(* Placement: PlacementArea, PieceLimit and AlternationType                *)
(* (src/src/ruleset/starting_positions/placement_area.rs, piece_limit.rs,  *)
(* alteration_type.rs).                                                    *)
(***************************************************************************)
\* largest limit, point value and per-turn amount
MaxLimit == 1

\* PlacementArea: Half, MirroredFlipped(set), MirroredRotated(set) with the
\* set listed in the order it is iterated, NonMirrored(map) with the set of
\* each color, or no entry for it
NoArea == [present |-> FALSE, positions |-> <<>>]
AreaOf(positions) == [present |-> TRUE, positions |-> positions]
Half == [kind |-> "Half", positions |-> <<>>, red |-> NoArea, blue |-> NoArea]
MirroredArea(kind, positions) ==
    [kind |-> kind, positions |-> positions, red |-> NoArea, blue |-> NoArea]
NonMirrored(red, blue) ==
    [kind |-> "NonMirrored", positions |-> <<>>, red |-> red, blue |-> blue]

\* the elements of a list
Elements(list) == {list[i] : i \in 1 .. Len(list)}

\* the loop of the mirrored branch (lines 41-56); found starts as a clone
\* of the positions; HashSet::insert returns whether the value was new
RECURSIVE verify_area_positions(_, _, _, _, _, _)
verify_area_positions(kind, b, total_rows, positions, j, found) ==
    IF j > Len(positions) THEN Pass
    ELSE LET position == positions[j]
         IN  IF position.row < 0 THEN Fail("PositionCannotPlace", position)
             ELSE IF total_rows.kind = "Panic" THEN Abort
             ELSE IF \/ position.row >= total_rows.value
                     \/ position.column < 0
                     \/ position.column >= columns(b)
             THEN Fail("PositionCannotPlace", position)
             ELSE LET opposite == Image(kind, b, position, total_rows.value)
                      position_new == position \notin found
                      found_1 == found \cup {position}
                      opposite_new == opposite \notin found_1
                  IN  IF ~position_new \/ opposite_new
                      THEN Fail("PositionCollision", position)
                      ELSE verify_area_positions(kind, b, total_rows,
                                                 positions, j + 1,
                                                 found_1 \cup {opposite})

\* the loop of the NonMirrored branch over one color's set (lines 65-69)
RECURSIVE verify_area_color(_, _, _)
verify_area_color(coordinate_set, j, found) ==
    IF j > Len(coordinate_set) THEN [ret |-> Pass, found |-> found]
    ELSE IF coordinate_set[j] \in found
    THEN [ret |-> Fail("PositionCollision", coordinate_set[j]),
          found |-> found]
    ELSE verify_area_color(coordinate_set, j + 1,
                           found \cup {coordinate_set[j]})

\* PlacementArea::verify; Color::into_enum_iter gives Red, then Blue
PlacementArea_verify(self, b, total_rows) ==
    IF self.kind = "Half" THEN Pass
    ELSE IF self.kind \in {"MirroredFlipped", "MirroredRotated"}
    THEN verify_area_positions(self.kind, b, total_rows, self.positions, 1,
                               Elements(self.positions))
    ELSE IF ~self.red.present THEN Fail("ColorNotFound", "Red")
    ELSE LET red == verify_area_color(self.red.positions, 1, {})
         IN  IF red.ret.kind # "Ok" THEN red.ret
             ELSE IF ~self.blue.present
             THEN Fail("ColorNotFound", "Blue")
             ELSE verify_area_color(self.blue.positions, 1, red.found).ret

\* the coordinates an area may name, on and around the layout board
AreaCoordinates ==
    {Coordinate(r, c) : r \in -1 .. LayoutRows + 2, c \in -1 .. LayoutColumns}

\* the lists without repetition of at most n of them: a set, as iterated
RECURSIVE AreaListsOfLength(_)
AreaListsOfLength(n) ==
    IF n = 0 THEN {<<>>}
    ELSE {Append(list, position) :
            list \in AreaListsOfLength(n - 1), position \in AreaCoordinates}

AreaLists ==
    {list \in UNION {AreaListsOfLength(n) : n \in 0 .. MaxPositions} :
        \A i, j \in 1 .. Len(list) : i # j => list[i] # list[j]}

\* a few sets for the colors of a NonMirrored area
ColorAreas ==
    {NoArea, AreaOf(<<>>), AreaOf(<<Coordinate(1, 0)>>),
     AreaOf(<<Coordinate(1, 0), Coordinate(1, 1)>>)}

PlacementAreas ==
    {Half}
    \cup {MirroredArea(kind, list) :
            kind \in {"MirroredFlipped", "MirroredRotated"},
            list \in AreaLists}
    \cup {NonMirrored(red, blue) : red \in ColorAreas, blue \in ColorAreas}

\* PieceLimit; limits is the map of a TypeCountLimit as it is iterated,
\* point_values the map of a PointLimit as a function of the piece index
NoValues == [i \in {} |-> 0]
LimitEntry(piece_index, limit) == [piece_index |-> piece_index, limit |-> limit]
TotalLimit(limit) ==
    [kind |-> "TotalLimit", limit |-> limit, limits |-> <<>>,
     point_values |-> NoValues, point_limit |-> 0]
TypeCountLimit(limits) ==
    [kind |-> "TypeCountLimit", limit |-> 0, limits |-> limits,
     point_values |-> NoValues, point_limit |-> 0]
PointLimit(point_values, point_limit) ==
    [kind |-> "PointLimit", limit |-> 0, limits |-> <<>>,
     point_values |-> point_values, point_limit |-> point_limit]

\* a PointLimit check that looks only at the pieces the map names
verify_point_limit_referenced_only(point_values, ruleset) ==
    IF \E k \in DOMAIN point_values :
            k < Len(ruleset.pieces) /\ point_values[k] = 0
    THEN LET k == CHOOSE k \in DOMAIN point_values :
                      k < Len(ruleset.pieces) /\ point_values[k] = 0
         IN  Fail("PieceHasNoPointValue", ruleset.pieces[k + 1])
    ELSE Pass

\* the loop of the TypeCountLimit arm (lines 46-54)
RECURSIVE verify_type_counts(_, _, _)
verify_type_counts(limits, ruleset, j) ==
    IF j > Len(limits) THEN Pass
    ELSE LET found_piece == get_piece(ruleset, limits[j].piece_index)
         IN  IF found_piece.kind = "None"
             THEN Fail("PieceIndexNotFound", limits[j].piece_index)
             ELSE IF limits[j].limit = 0
             THEN Fail("LimitIs0ForPiece", found_piece.piece)
             ELSE verify_type_counts(limits, ruleset, j + 1)

\* the loop of the PointLimit arm over ruleset.pieces.iter().enumerate()
\* (lines 56-63)
RECURSIVE verify_point_values(_, _, _)
verify_point_values(point_values, ruleset, piece_index) ==
    IF piece_index >= Len(ruleset.pieces) THEN Pass
    ELSE IF piece_index \notin DOMAIN point_values
    THEN Fail("PieceHasNoPointValue", ruleset.pieces[piece_index + 1])
    ELSE IF point_values[piece_index] = 0
    THEN Fail("PieceHasNoPointValue", ruleset.pieces[piece_index + 1])
    ELSE verify_point_values(point_values, ruleset, piece_index + 1)

\* the PointLimit arm (lines 55-64)
verify_point_limit(point_values, ruleset) ==
    verify_point_values(point_values, ruleset, 0)

\* PieceLimit::verify; self_set is listed in the order it is iterated
RECURSIVE verify_limits(_, _, _)
verify_limits(self_set, ruleset, j) ==
    IF j > Len(self_set) THEN Pass
    ELSE LET piece_limit == self_set[j]
             arm == IF piece_limit.kind = "TotalLimit"
                    THEN IF piece_limit.limit = 0
                         THEN Fail("LimitIs0", 0)
                         ELSE Pass
                    ELSE IF piece_limit.kind = "TypeCountLimit"
                    THEN verify_type_counts(piece_limit.limits, ruleset, 1)
                    ELSE verify_point_limit(piece_limit.point_values, ruleset)
         IN  IF arm.kind # "Ok" THEN arm
             ELSE verify_limits(self_set, ruleset, j + 1)

PieceLimit_verify(self_set, ruleset) == verify_limits(self_set, ruleset, 1)

\* AlternationType
TurnsCount(per_turn_count) ==
    [kind |-> "TurnsCount", per_turn |-> per_turn_count, hard_limit |-> FALSE]
TurnsPoints(per_turn_points, hard_limit) ==
    [kind |-> "TurnsPoints", per_turn |-> per_turn_points,
     hard_limit |-> hard_limit]
Points == [kind |-> "Points", per_turn |-> 0, hard_limit |-> FALSE]
WholePlacement ==
    [kind |-> "WholePlacement", per_turn |-> 0, hard_limit |-> FALSE]
Hidden == [kind |-> "Hidden", per_turn |-> 0, hard_limit |-> FALSE]

\* AlternationType::verify; the test of piece_limits at line 32 is left
\* unfinished in the source and has no body: piece_limits is not consulted
AlternationType_verify(self, piece_limits) ==
    IF self.kind = "TurnsCount"
    THEN IF self.per_turn = 0 THEN Fail("CountIs0", 0) ELSE Pass
    ELSE IF self.kind = "TurnsPoints"
    THEN IF self.per_turn = 0 THEN Fail("PointsIs0", 0) ELSE Pass
    ELSE Pass

(***************************************************************************)
(* Verifying placement areas, piece limits and alternation types.          *)
(***************************************************************************)
\* the boards of the areas: the layout board and one a row taller
AreaBoards ==
    LayoutBoards \cup {Rectangular(LayoutRows + 1, LayoutColumns, <<0>>)}

\* the maps of a TypeCountLimit, as iterated: no index twice
LimitEntries ==
    {LimitEntry(i, n) : i \in 0 .. MaxIndex + 1, n \in 0 .. MaxLimit}
RECURSIVE TypeCountMapsOfLength(_)
TypeCountMapsOfLength(n) ==
    IF n = 0 THEN {<<>>}
    ELSE {Append(limits, entry) :
            limits \in TypeCountMapsOfLength(n - 1), entry \in LimitEntries}
TypeCountMaps ==
    {limits \in UNION {TypeCountMapsOfLength(n) : n \in 0 .. MaxEntries} :
        \A i, j \in 1 .. Len(limits) :
            i # j => limits[i].piece_index # limits[j].piece_index}

\* the maps of a PointLimit
PointValueMaps ==
    UNION {[indices -> 0 .. MaxLimit] : indices \in SUBSET (0 .. MaxIndex)}

PieceLimits ==
    {TotalLimit(n) : n \in 0 .. MaxLimit}
    \cup {TypeCountLimit(limits) : limits \in TypeCountMaps}
    \cup {PointLimit(values, MaxLimit) : values \in PointValueMaps}

\* the sets of limits, as iterated: at most one limit of each kind, since
\* Hash and Eq of PieceLimit are those of the discriminant (lines 70-80)
RECURSIVE PieceLimitListsOfLength(_)
PieceLimitListsOfLength(n) ==
    IF n = 0 THEN {<<>>}
    ELSE UNION {{Append(list, piece_limit) :
                    piece_limit \in
                        {other \in PieceLimits :
                            \A i \in 1 .. Len(list) :
                                list[i].kind # other.kind}} :
                list \in PieceLimitListsOfLength(n - 1)}
PieceLimitSets == UNION {PieceLimitListsOfLength(n) : n \in 0 .. 3}

AlternationTypes ==
    {TurnsCount(n) : n \in 0 .. MaxLimit}
    \cup {TurnsPoints(n, hard) : n \in 0 .. MaxLimit, hard \in BOOLEAN}
    \cup {Points, WholePlacement, Hidden}

\* the catalogs a limit is verified against
LimitCatalogs == {<<>>} \cup Catalogs

\* one call: the subject says which of the three is verified
PlacementCall(subject, area, b, piece_limits, alternation, pieces) ==
    [subject |-> subject, op |-> "none", area |-> area, board_type |-> b,
     piece_limits |-> piece_limits, alternation |-> alternation,
     ruleset |-> Ruleset(pieces, b, MirroredFlipped(<<>>), {}),
     ret |-> Pass]

InitPlacement ==
    /\ board = NoBoard
    /\ phase = "input"
    /\ placed = 0
    /\ reported = 0
    /\ \/ call \in {PlacementCall("area", area, b, <<>>, Hidden, <<>>) :
                        area \in PlacementAreas, b \in AreaBoards}
       \/ call \in {PlacementCall("limits", Half, Rectangular(1, 2, <<0>>),
                                  piece_limits, Hidden, pieces) :
                        piece_limits \in PieceLimitSets,
                        pieces \in LimitCatalogs}
       \/ call \in {PlacementCall("alternation", Half,
                                  Rectangular(1, 2, <<0>>), piece_limits,
                                  alternation, <<>>) :
                        piece_limits \in PieceLimitSets,
                        alternation \in AlternationTypes}

\* area.verify(&board); board.rows() gives one of its outcomes
VerifyPlacementArea ==
    /\ phase = "input"
    /\ call.subject = "area"
    /\ \E total_rows \in rows(call.board_type) :
          call' = [call EXCEPT
                     !.op = "PlacementArea::verify",
                     !.ret = PlacementArea_verify(call.area, call.board_type,
                                                  total_rows)]
    /\ phase' = "returned"
    /\ UNCHANGED <<board, placed, reported>>

\* PieceLimit::verify(&piece_limits, &ruleset)
VerifyPieceLimits ==
    /\ phase = "input"
    /\ call.subject = "limits"
    /\ call' = [call EXCEPT
                  !.op = "PieceLimit::verify",
                  !.ret = PieceLimit_verify(call.piece_limits, call.ruleset)]
    /\ phase' = "returned"
    /\ UNCHANGED <<board, placed, reported>>

\* alternation.verify(&piece_limits)
VerifyAlternationType ==
    /\ phase = "input"
    /\ call.subject = "alternation"
    /\ call' = [call EXCEPT
                  !.op = "AlternationType::verify",
                  !.ret = AlternationType_verify(call.alternation,
                                                 call.piece_limits)]
    /\ phase' = "returned"
    /\ UNCHANGED <<board, placed, reported>>

NextPlacement ==
    \/ VerifyPlacementArea
    \/ VerifyPieceLimits
    \/ VerifyAlternationType

SpecPlacement == InitPlacement /\ [][NextPlacement]_vars

(***************************************************************************)
(* Properties of the placement checks.                                     *)
(***************************************************************************)
Area == call.area
AreaBoard == call.board_type
AreaPositions == Elements(Area.positions)
IsMirroredArea == Area.kind \in {"MirroredFlipped", "MirroredRotated"}
AreaReturned == phase = "returned" /\ call.op = "PlacementArea::verify"

\* a coordinate on the board of the area, border rows included
AreaInBounds(position) ==
    /\ position.row >= 0
    /\ position.row < AreaBoard.rows + 2
    /\ position.column >= 0
    /\ position.column < AreaBoard.columns

\* the flip or rotation image of a coordinate of the area
AreaImage(position) ==
    Image(Area.kind, AreaBoard, position, AreaBoard.rows + 2)

\* all coordinates in bounds and none the image of itself or of another
AreaSound ==
    /\ \A position \in AreaPositions : AreaInBounds(position)
    /\ \A position, other \in AreaPositions : position # AreaImage(other)

\* C18: PlacementArea.verify accepts Half always; for a mirrored area it
\* returns Ok exactly for the sets whose coordinates are all in bounds and
\* disjoint from their images, PositionCannotPlace only for a coordinate
\* out of bounds and PositionCollision only for a coordinate that collides
\* with an image
C18_PlacementArea ==
    AreaReturned =>
        /\ Area.kind = "Half" => call.ret = Pass
        /\ IsMirroredArea =>
              IF AreaSound
              THEN call.ret = Pass
              ELSE /\ call.ret.kind = "Err"
                   /\ call.ret.err \in {"PositionCannotPlace",
                                        "PositionCollision"}
                   /\ call.ret.value \in AreaPositions
                   /\ call.ret.err = "PositionCannotPlace" =>
                          ~AreaInBounds(call.ret.value)
                   /\ call.ret.err = "PositionCollision" =>
                          \E other \in AreaPositions :
                              \/ call.ret.value = AreaImage(other)
                              \/ other = AreaImage(call.ret.value)

Limits == Elements(call.piece_limits)
Catalog == call.ruleset.pieces
LimitsReturned == phase = "returned" /\ call.op = "PieceLimit::verify"

\* some TotalLimit of the set has limit 0
TotalIsZero ==
    \E piece_limit \in Limits :
        piece_limit.kind = "TotalLimit" /\ piece_limit.limit = 0

\* the entries of the TypeCountLimit of the set
TypeCountEntries ==
    UNION {Elements(piece_limit.limits) :
             piece_limit \in {other \in Limits :
                                other.kind = "TypeCountLimit"}}

\* the indices a TypeCountLimit names that are not in the catalog
UnresolvedIndices ==
    {entry.piece_index :
        entry \in {other \in TypeCountEntries :
                      other.piece_index >= Len(Catalog)}}

\* the catalog pieces a TypeCountLimit gives the limit 0
ZeroLimitPieces ==
    {Catalog[entry.piece_index + 1] :
        entry \in {other \in TypeCountEntries :
                      other.piece_index < Len(Catalog) /\ other.limit = 0}}

\* the catalog pieces the PointLimit of the set gives no point value
PiecesWithoutValue ==
    {Catalog[k + 1] :
        k \in {i \in 0 .. Len(Catalog) - 1 :
                 \E piece_limit \in Limits :
                     /\ piece_limit.kind = "PointLimit"
                     /\ i \notin DOMAIN piece_limit.point_values}}

\* the catalog pieces the PointLimit of the set gives the value 0
PiecesWithZeroValue ==
    {Catalog[k + 1] :
        k \in {i \in 0 .. Len(Catalog) - 1 :
                 \E piece_limit \in Limits :
                     /\ piece_limit.kind = "PointLimit"
                     /\ i \in DOMAIN piece_limit.point_values
                     /\ piece_limit.point_values[i] = 0}}

\* C19: PieceLimit.verify returns Ok exactly when every TotalLimit is
\* positive, every index of a TypeCountLimit resolves and has a positive
\* limit, and under a PointLimit every piece of the catalog has a positive
\* point value; LimitIs0 is returned only for a zero TotalLimit,
\* PieceIndexNotFound only for an unresolved index, LimitIs0ForPiece only
\* for a piece with limit 0 and PieceHasNoPointValue only for a catalog
\* piece without a positive point value
C19_PieceLimits ==
    LimitsReturned =>
        /\ call.ret = Pass <=>
              /\ ~TotalIsZero
              /\ UnresolvedIndices = {}
              /\ ZeroLimitPieces = {}
              /\ PiecesWithoutValue = {}
              /\ PiecesWithZeroValue = {}
        /\ call.ret.kind \in {"Ok", "Err"}
        /\ call.ret.kind = "Err" =>
              call.ret.err \in {"LimitIs0", "PieceIndexNotFound",
                                "LimitIs0ForPiece", "PieceHasNoPointValue"}
        /\ call.ret.err = "LimitIs0" => TotalIsZero
        /\ call.ret.err = "PieceIndexNotFound" =>
              call.ret.value \in UnresolvedIndices
        /\ call.ret.err = "LimitIs0ForPiece" =>
              call.ret.value \in ZeroLimitPieces
        /\ call.ret.err = "PieceHasNoPointValue" =>
              call.ret.value \in PiecesWithoutValue \cup PiecesWithZeroValue

\* a PointLimit that values one piece of the catalog and not another is
\* rejected for the piece without a value
C19_Witness ==
    /\ LimitsReturned
    /\ call.ret.kind = "Err"
    /\ call.ret.err = "PieceHasNoPointValue"
    /\ call.ret.value \in PiecesWithoutValue
    /\ PiecesWithZeroValue = {}
    /\ \E piece_limit \in Limits :
          /\ piece_limit.kind = "PointLimit"
          /\ DOMAIN piece_limit.point_values # {}

Alternation == call.alternation
AlternationReturned ==
    phase = "returned" /\ call.op = "AlternationType::verify"

\* the set of limits contains a PointLimit
HasPointLimit == \E piece_limit \in Limits : piece_limit.kind = "PointLimit"

\* C20: AlternationType.verify rejects TurnsCount and TurnsPoints with a
\* per-turn amount of 0, rejects TurnsPoints when the limits contain no
\* PointLimit, with an error of its own, and accepts everything else
C20_Alternation ==
    AlternationReturned =>
        /\ Alternation.kind = "TurnsCount" =>
              IF Alternation.per_turn = 0
              THEN call.ret.kind = "Err"
              ELSE call.ret = Pass
        /\ Alternation.kind = "TurnsPoints" =>
              /\ Alternation.per_turn = 0 => call.ret.kind = "Err"
              /\ ~HasPointLimit => call.ret.kind = "Err"
              /\ Alternation.per_turn > 0 /\ ~HasPointLimit =>
                    call.ret.err \notin {None, "CountIs0", "PointsIs0"}
              /\ Alternation.per_turn > 0 /\ HasPointLimit =>
                    call.ret = Pass
        /\ Alternation.kind \in {"Points", "WholePlacement", "Hidden"} =>
              call.ret = Pass

(***************************************************************************)
(* Identity of PieceLimit and VictoryCondition in a HashSet                *)
(* (piece_limit.rs:70-80, ruleset/mod.rs:233-243).                         *)
(***************************************************************************)
\* VictoryCondition with its payloads
GoalCount(amount, valid_pieces) ==
    [kind |-> "GoalCount", amount |-> amount, valid_pieces |-> valid_pieces]
AllCaptured == [kind |-> "AllCaptured", amount |-> 0, valid_pieces |-> <<>>]
PointDifference(threshold) ==
    [kind |-> "PointDifference", amount |-> threshold, valid_pieces |-> <<>>]

\* core::mem::discriminant: the variant of a value, without its payload
discriminant(value) == value.kind

\* an equality that compares the payloads too, as a derived PartialEq does
PieceLimit_eq_derived(self, other) == self = other
VictoryCondition_eq_derived(self, other) == self = other

\* impl Hash, impl PartialEq for PieceLimit
PieceLimit_hash(self) == discriminant(self)
PieceLimit_eq(self, other) == discriminant(self) = discriminant(other)

\* impl Hash, impl PartialEq for VictoryCondition
VictoryCondition_hash(self) == discriminant(self)
VictoryCondition_eq(self, other) == discriminant(self) = discriminant(other)

\* HashSet::insert: the value is added unless the set holds an element with
\* the same hash that is equal to it; returns whether it was added
PieceLimitSet_insert(set, value) ==
    IF \E element \in set :
          /\ PieceLimit_hash(element) = PieceLimit_hash(value)
          /\ PieceLimit_eq(element, value)
    THEN [set |-> set, ret |-> FALSE]
    ELSE [set |-> set \cup {value}, ret |-> TRUE]

VictoryConditionSet_insert(set, value) ==
    IF \E element \in set :
          /\ VictoryCondition_hash(element) = VictoryCondition_hash(value)
          /\ VictoryCondition_eq(element, value)
    THEN [set |-> set, ret |-> FALSE]
    ELSE [set |-> set \cup {value}, ret |-> TRUE]

\* the values inserted: each kind with more than one payload
IdentityLimits ==
    {TotalLimit(n) : n \in 0 .. MaxLimit}
    \cup {TypeCountLimit(<<>>), TypeCountLimit(<<LimitEntry(0, MaxLimit)>>)}
    \cup {PointLimit(NoValues, n) : n \in 0 .. MaxLimit}

IdentityConditions ==
    {GoalCount(n, pieces) : n \in 0 .. MaxLimit, pieces \in {<<>>, <<"Big">>}}
    \cup {AllCaptured}
    \cup {PointDifference(n) : n \in 0 .. MaxLimit}

\* the two sets, the value of the last insert, the set it was made on and
\* what it returned
IdentityCall(op, limits, conditions, value, before, ret) ==
    [op |-> op, limits |-> limits, conditions |-> conditions,
     value |-> value, before |-> before, ret |-> ret]

InitIdentity ==
    /\ board = NoBoard
    /\ phase = "input"
    /\ placed = 0
    /\ reported = 0
    /\ call = IdentityCall("none", {}, {}, AllCaptured, {}, FALSE)

\* limits.insert(value)
InsertPieceLimit(value) ==
    /\ LET inserted == PieceLimitSet_insert(call.limits, value)
       IN  call' = IdentityCall("limits.insert", inserted.set,
                                call.conditions, value, call.limits,
                                inserted.ret)
    /\ UNCHANGED <<board, phase, placed, reported>>

\* victory_conditions.insert(value)
InsertVictoryCondition(value) ==
    /\ LET inserted == VictoryConditionSet_insert(call.conditions, value)
       IN  call' = IdentityCall("victory_conditions.insert", call.limits,
                                inserted.set, value, call.conditions,
                                inserted.ret)
    /\ UNCHANGED <<board, phase, placed, reported>>

NextIdentity ==
    \/ \E value \in IdentityLimits : InsertPieceLimit(value)
    \/ \E value \in IdentityConditions : InsertVictoryCondition(value)

SpecIdentity == InitIdentity /\ [][NextIdentity]_vars

\* the kinds of the elements of a set
KindsOf(set) == {element.kind : element \in set}

\* C21: PieceLimit and VictoryCondition values are equal, and hash equally,
\* exactly when they are the same variant, whatever their payloads; a set
\* of either never holds two elements of one kind, and an insert adds its
\* value exactly when the set held no element of that kind
C21_KindIdentity ==
    /\ \A a, b \in call.limits \cup IdentityLimits :
          /\ PieceLimit_eq(a, b) <=> a.kind = b.kind
          /\ PieceLimit_hash(a) = PieceLimit_hash(b) <=> a.kind = b.kind
    /\ \A a, b \in call.conditions \cup IdentityConditions :
          /\ VictoryCondition_eq(a, b) <=> a.kind = b.kind
          /\ VictoryCondition_hash(a) = VictoryCondition_hash(b)
                <=> a.kind = b.kind
    /\ Cardinality(call.limits) = Cardinality(KindsOf(call.limits))
    /\ Cardinality(call.conditions) = Cardinality(KindsOf(call.conditions))
    /\ call.op # "none" =>
          /\ call.ret <=> call.value.kind \notin KindsOf(call.before)
    /\ call.op = "limits.insert" =>
          call.limits = IF call.ret THEN call.before \cup {call.value}
                                   ELSE call.before
    /\ call.op = "victory_conditions.insert" =>
          call.conditions = IF call.ret THEN call.before \cup {call.value}
                                       ELSE call.before

\* an insert was refused for a value whose payload differs from that of the
\* element of its kind, in a set of limits and in a set of conditions that
\* both hold every kind
C21_Witness ==
    /\ Cardinality(call.limits) = 3
    /\ Cardinality(call.conditions) = 3
    /\ call.op \in {"limits.insert", "victory_conditions.insert"}
    /\ ~call.ret
    /\ call.value \notin call.before

(***************************************************************************)
(* Coordinate arithmetic (coordinate.rs:29-67).                            *)
(***************************************************************************)
\* largest magnitude of a component and of a scalar
MaxComponent == 2

\* impl AddAssign, Sub, SubAssign, MulAssign for Coordinate; the assigning
\* forms are given as the value `self` holds afterwards
AddAssign(self, rhs) == Coordinate(self.row + rhs.row, self.column + rhs.column)
Sub(self, rhs) == Coordinate(self.row - rhs.row, self.column - rhs.column)
SubAssign(self, rhs) == Coordinate(self.row - rhs.row, self.column - rhs.column)
MulAssign(self, rhs) == Coordinate(self.row * rhs, self.column * rhs)

Components == -MaxComponent .. MaxComponent
SmallCoordinates == {Coordinate(r, c) : r \in Components, c \in Components}

\* one operation on the coordinates a and b and the scalar k
CoordinateCall(op, a, b, k, ret) ==
    [op |-> op, a |-> a, b |-> b, k |-> k, ret |-> ret]

InitCoordinate ==
    /\ board = NoBoard
    /\ phase = "input"
    /\ placed = 0
    /\ reported = 0
    /\ call \in {CoordinateCall("none", a, b, k, a) :
                    a \in SmallCoordinates, b \in SmallCoordinates,
                    k \in Components}

\* a + b
CoordinateAdd ==
    /\ phase = "input"
    /\ call' = [call EXCEPT !.op = "add", !.ret = Add(call.a, call.b)]
    /\ phase' = "returned"
    /\ UNCHANGED <<board, placed, reported>>

\* a += b
CoordinateAddAssign ==
    /\ phase = "input"
    /\ call' = [call EXCEPT !.op = "add_assign",
                            !.ret = AddAssign(call.a, call.b)]
    /\ phase' = "returned"
    /\ UNCHANGED <<board, placed, reported>>

\* a - b
CoordinateSub ==
    /\ phase = "input"
    /\ call' = [call EXCEPT !.op = "sub", !.ret = Sub(call.a, call.b)]
    /\ phase' = "returned"
    /\ UNCHANGED <<board, placed, reported>>

\* a -= b
CoordinateSubAssign ==
    /\ phase = "input"
    /\ call' = [call EXCEPT !.op = "sub_assign",
                            !.ret = SubAssign(call.a, call.b)]
    /\ phase' = "returned"
    /\ UNCHANGED <<board, placed, reported>>

\* a * k
CoordinateMul ==
    /\ phase = "input"
    /\ call' = [call EXCEPT !.op = "mul", !.ret = Mul(call.a, call.k)]
    /\ phase' = "returned"
    /\ UNCHANGED <<board, placed, reported>>

\* a *= k
CoordinateMulAssign ==
    /\ phase = "input"
    /\ call' = [call EXCEPT !.op = "mul_assign",
                            !.ret = MulAssign(call.a, call.k)]
    /\ phase' = "returned"
    /\ UNCHANGED <<board, placed, reported>>

NextCoordinate ==
    \/ CoordinateAdd
    \/ CoordinateAddAssign
    \/ CoordinateSub
    \/ CoordinateSubAssign
    \/ CoordinateMul
    \/ CoordinateMulAssign

SpecCoordinate == InitCoordinate /\ [][NextCoordinate]_vars

\* C22: a + b, a - b and a * k are componentwise on row and column, each
\* operator gives what its assigning form leaves in a, a + b = b + a and
\* (a + b) - b = a
C22_Componentwise ==
    phase = "returned" =>
        /\ call.op \in {"add", "add_assign"} =>
              /\ call.ret = Coordinate(call.a.row + call.b.row,
                                       call.a.column + call.b.column)
              /\ call.ret = Add(call.a, call.b)
              /\ call.ret = AddAssign(call.a, call.b)
              /\ call.ret = Add(call.b, call.a)
              /\ Sub(call.ret, call.b) = call.a
        /\ call.op \in {"sub", "sub_assign"} =>
              /\ call.ret = Coordinate(call.a.row - call.b.row,
                                       call.a.column - call.b.column)
              /\ call.ret = Sub(call.a, call.b)
              /\ call.ret = SubAssign(call.a, call.b)
        /\ call.op \in {"mul", "mul_assign"} =>
              /\ call.ret = Coordinate(call.a.row * call.k,
                                       call.a.column * call.k)
              /\ call.ret = Mul(call.a, call.k)
              /\ call.ret = MulAssign(call.a, call.k)

(***************************************************************************)
(* C23: apply_action does not panic once is_valid_action has accepted the  *)
(* action: the start, every middle cell and the final landing it touches   *)
(* are valid positions and every middle cell holds a piece when it is      *)
(* read, so the call returns the new board.                                *)
(***************************************************************************)
C23_NoPanicOnceValid ==
    (Returned("apply_action") /\ is_valid_action(board, call.action).kind = "Ok")
        => call.ret.kind = "Ok"

(***************************************************************************)
(* is_valid_jump called on its own (it is a pub fn), on boards with other  *)
(* goal columns and on a board with a hole (GameBoard.board is a pub       *)
(* field).                                                                 *)
(***************************************************************************)
\* the goal_pos of the boards: both goals side by side, one goal in the
\* middle, two goals separated by a non-goal cell
JumpGoals == {{0, 1}, {1}, {0, 2}}

\* a board whose cell at the hole has been made Invalid
WithHole(b, hole) == IndexSet(b, hole, Invalid)

\* the empty boards jumps are validated on
JumpBoards ==
    {GameBoardNew(BoardRows, BoardCols, goal_pos) : goal_pos \in JumpGoals}
    \cup {WithHole(GameBoardNew(BoardRows, BoardCols, GoalPos),
                   Coordinate(2, 0))}

\* the pieces that jump, one of each size, and the piece jumped over
JumpingPieces == {"LargeRed", "SmallRed"}
JumpedPiece == "SmallBlue"

\* the boards with no piece or with one piece on a valid cell
JumpSetups ==
    JumpBoards
    \cup UNION {{piece_mut_set(b, pos, JumpedPiece) :
                    pos \in {c \in Coordinates : piece_mut(b, c) = Ok(None)}} :
                b \in JumpBoards}

\* one call of is_valid_jump and what it returned
JumpCall(op, jumper, start_pos, directions, ret) ==
    [op |-> op, jumper |-> jumper, start_pos |-> start_pos,
     directions |-> directions, ret |-> ret]

InitJump ==
    /\ board \in JumpSetups
    /\ phase = "input"
    /\ placed = 0
    /\ reported = 0
    /\ call = JumpCall("none", "LargeRed", Coordinate(0, 0), <<>>, Ok(None))

\* board.is_valid_jump(piece, start_pos, &directions)
IsValidJump(jumper, start_pos, directions) ==
    /\ phase = "input"
    /\ call' = JumpCall("is_valid_jump", jumper, start_pos, directions,
                        is_valid_jump(board, jumper, start_pos, directions))
    /\ phase' = "returned"
    /\ UNCHANGED <<board, placed, reported>>

NextJump ==
    phase = "input" /\ \E jumper \in JumpingPieces, start_pos \in Coordinates,
                          directions \in DirectionChains :
                            IsValidJump(jumper, start_pos, directions)

SpecJump == InitJump /\ [][NextJump]_vars

(***************************************************************************)
(* C24: is_valid_jump returns Ok or an ActionError and never panics, for   *)
(* any board, start and chain: a hop whose landing is valid and empty and  *)
(* whose middle cell is out of bounds or Invalid gets an error.            *)
(***************************************************************************)
C24_JumpNeverPanics ==
    (phase = "returned" /\ call.op = "is_valid_jump")
        => call.ret.kind \in {"Ok", "Err"}

(***************************************************************************)
(* C25: get_space returns Invalid for every coordinate outside             *)
(* [0, rows()) x [0, columns()), a negative row or column included, on     *)
(* Rectangular and on Custom boards.                                       *)
(***************************************************************************)
C25_OffBoardInvalid ==
    (phase = "returned" /\ call.op = "get_space") =>
        LET total_rows == IF BoardType.kind = "Rectangular"
                          THEN BoardType.rows + 2
                          ELSE BoardType.rows
        IN  ( \/ call.coordinate.row \notin 0 .. total_rows - 1
              \/ call.coordinate.column \notin 0 .. BoardType.columns - 1 )
            => call.ret = SpaceInvalid

(***************************************************************************)
(* index_to_position, pieces_of_size and pieces_of_color                   *)
(* (game_board.rs:46-77, 213-215) on boards of several dimensions.         *)
(***************************************************************************)
\* largest board_size.rows() and board_size.columns() of these boards
MatrixRows == 2
MatrixColumns == 3

\* a position read as rows and columns swapped
index_to_position_transposed(matrix, index) ==
    Coordinate(index \div matrix.columns, index % matrix.columns)

\* index_to_position: the (row, column) pair of a storage index
index_to_position(matrix, index) ==
    Coordinate(index % matrix.rows, index \div matrix.rows)

\* the loop of pieces_of_size and pieces_of_color over
\* values.iter().enumerate(); `kept` is the set of pieces that are pushed
RECURSIVE pieces_loop(_, _, _, _)
pieces_loop(b, kept, index, out) ==
    IF index \notin DOMAIN b.values THEN out
    ELSE LET space == b.values[index]
         IN  pieces_loop(b, kept, index + 1,
                IF space \in kept
                THEN Append(out, [position |-> index_to_position(b, index),
                                  piece |-> space])
                ELSE out)

\* GameBoard::pieces_of_size
pieces_of_size(b, wanted) ==
    pieces_loop(b, {p \in Piece : size(p) = wanted}, 0, <<>>)

\* GameBoard::pieces_of_color
pieces_of_color(b, wanted) ==
    pieces_loop(b, {p \in Piece : color(p) = wanted}, 0, <<>>)

\* the pieces put on these boards, in this order
MatrixPieces == <<"LargeRed", "SmallBlue">>

\* the boards piece_mut can build from b by putting the first n of them
RECURSIVE MatrixSetupOf(_, _)
MatrixSetupOf(b, n) ==
    IF n = 0 THEN {b}
    ELSE UNION {{piece_mut_set(prior, pos, MatrixPieces[n]) :
                    pos \in {c \in Coordinates : piece_mut(prior, c) = Ok(None)}} :
                prior \in MatrixSetupOf(b, n - 1)}

\* boards of 2 to MatrixRows + 2 rows and 2 to MatrixColumns columns,
\* square or not, with 0 to 2 pieces
MatrixBoards ==
    UNION {MatrixSetupOf(GameBoardNew(r, c, GoalPos), n) :
             r \in 0 .. MatrixRows, c \in 2 .. MatrixColumns,
             n \in 0 .. Len(MatrixPieces)}

\* one call: its argument (an index, a color or a size) and what it
\* returned (a position or a list of positions with their pieces)
MatrixCall(op, index, wanted, position, out) ==
    [op |-> op, index |-> index, wanted |-> wanted, position |-> position,
     out |-> out]

InitMatrix ==
    /\ board \in MatrixBoards
    /\ phase = "input"
    /\ placed = 0
    /\ reported = 0
    /\ call = MatrixCall("none", 0, "none", Coordinate(0, 0), <<>>)

\* index_to_position(&board.board, index)
IndexToPosition(index) ==
    /\ phase = "input"
    /\ call' = MatrixCall("index_to_position", index, "none",
                          index_to_position(board, index), <<>>)
    /\ phase' = "returned"
    /\ UNCHANGED <<board, placed, reported>>

\* board.pieces_of_size(size)
PiecesOfSize(wanted) ==
    /\ phase = "input"
    /\ call' = MatrixCall("pieces_of_size", 0, wanted, Coordinate(0, 0),
                          pieces_of_size(board, wanted))
    /\ phase' = "returned"
    /\ UNCHANGED <<board, placed, reported>>

\* board.pieces_of_color(color)
PiecesOfColor(wanted) ==
    /\ phase = "input"
    /\ call' = MatrixCall("pieces_of_color", 0, wanted, Coordinate(0, 0),
                          pieces_of_color(board, wanted))
    /\ phase' = "returned"
    /\ UNCHANGED <<board, placed, reported>>

NextMatrix ==
    \/ phase = "input" /\ \E index \in DOMAIN board.values :
                            IndexToPosition(index)
    \/ \E wanted \in {"Small", "Large"} : PiecesOfSize(wanted)
    \/ \E wanted \in {"Red", "Blue"} : PiecesOfColor(wanted)

SpecMatrix == InitMatrix /\ [][NextMatrix]_vars

\* the in-bounds positions of the board
BoardPositions ==
    {Coordinate(r, c) : r \in 0 .. board.rows - 1, c \in 0 .. board.columns - 1}

\* the positions of the board that hold a piece of the set
Holding(kept) == {pos \in BoardPositions : CellAt(board, pos) \in kept}

\* a list reports every piece of the set once, at the cell it stands on
ReportsExactly(out, kept) ==
    /\ \A i \in 1 .. Len(out) :
          /\ out[i].position \in Holding(kept)
          /\ out[i].piece = CellAt(board, out[i].position)
    /\ {out[i].position : i \in 1 .. Len(out)} = Holding(kept)
    /\ Len(out) = Cardinality(Holding(kept))

(***************************************************************************)
(* C26: index_to_position inverts the storage layout on a board of any     *)
(* dimensions: the element at index_to_position(i) is values[i], and the   *)
(* mapping is a bijection between the storage indices and the in-bounds    *)
(* positions; pieces_of_size and pieces_of_color report each piece of the  *)
(* size or color once, at the cell it stands on.                           *)
(***************************************************************************)
C26_IndexInverted ==
    phase = "returned" =>
        /\ call.op = "index_to_position" =>
              /\ call.position \in BoardPositions
              /\ Index(board, call.position) = board.values[call.index]
              /\ CellAt(board, call.position) = board.values[call.index]
              /\ \A other \in DOMAIN board.values :
                    other # call.index =>
                        index_to_position(board, other) # call.position
              /\ \A pos \in BoardPositions :
                    \E i \in DOMAIN board.values :
                        index_to_position(board, i) = pos
        /\ call.op = "pieces_of_size" =>
              ReportsExactly(call.out, {p \in Piece : size(p) = call.wanted})
        /\ call.op = "pieces_of_color" =>
              ReportsExactly(call.out, {p \in Piece : color(p) = call.wanted})

\* on a board with more rows than columns, the red piece is reported at a
\* cell off the first row and off the first column
C26_Witness ==
    /\ phase = "returned"
    /\ call.op = "pieces_of_color"
    /\ call.wanted = "Red"
    /\ board.rows > board.columns
    /\ Len(call.out) = 1
    /\ call.out[1].position.row > call.out[1].position.column
    /\ call.out[1].position.column > 0
    /\ CellAt(board, call.out[1].position) = "LargeRed"

====
